---- MODULE Spec2Model ----
(***************************************************************************)
(* QuoteBot: credential lifecycle (TokenManager), resilient transport      *)
(* (HTTPClient.DoRequest) and posting client (BlueskyRepository).          *)
(*                                                                         *)
(* Goroutines: "main" constructs the manager (NewTokenManager) and then    *)
(* calls RefreshToken / PostMessage / GetToken / Shutdown; "bg" is the     *)
(* background refresh cycle; "r1" is a further client goroutine reading    *)
(* credentials through GetToken.                                           *)
(***************************************************************************)
EXTENDS Integers, Sequences, FiniteSets, TLC

\* ------------------------------------------------------------------ bounds
\* cfg.MaxRetries: retries after the first attempt of one DoRequest call
MaxRetries == 1
\* number of credential pairs the identity endpoint hands out in one run
MaxIssued == 2
\* number of ticks the background ticker delivers in one run
MaxTicks == 1
\* number of operations "main" starts after construction
MaxOps == 1
\* number of GetToken calls the client goroutine "r1" starts
MaxReads == 1
\* number of ticks delivered when the background cycle runs beside nothing
\* but Shutdown calls, and the number of those Shutdown calls
MaxCycleTicks == 2
MaxShutdowns == 2
\* largest retry budget a configuration is given when calculateBackoff is
\* applied on its own
MaxConfiguredRetries == 33
\* DoRequest calls of a client that uses the transport directly
MaxTransportCalls == 2
\* most characters between two credential-bearing patterns of a text that
\* is sanitized on its own
MaxGap == 31

\* ------------------------------------------------------------ goroutines
Procs == {"main", "bg", "r1"}
NoProc == "none"

\* ---------------------------------------------------------------- tokens
AccessToken == "access"
RefreshToken == "refresh"
TokenTypes == {AccessToken, RefreshToken}

\* A credential string: the empty string, or the credential of one kind
\* from one source (gen 0: the seed, gen g > 0: the g-th pair issued).
EmptyString == [kind |-> "", gen |-> 0]
Tok(k, g) == [kind |-> k, gen |-> g]

\* ------------------------------------------------------- TokenEncryptor
\* Strings that can sit in cfg.AccessJWT / cfg.RefreshJWT:
\*   "text"    not valid base64 (a JWT has dots, test seeds have dashes)
\*   "b64text" plain text that happens to be valid base64
\*   "ct"      base64(nonce || Seal_key(txt)), an output of Encrypt
Key == "key of this instance"
ForeignKey == "key of another instance"
PlainText(t) == [form |-> "text", key |-> "", nonce |-> 0, txt |-> t]
B64Text(t) == [form |-> "b64text", key |-> "", nonce |-> 0, txt |-> t]
CipherText(k, n, t) == [form |-> "ct", key |-> k, nonce |-> n, txt |-> t]
NoString == [form |-> "b64text", key |-> "", nonce |-> 0, txt |-> EmptyString]

\* The nonce is random in the code; it never influences what Decrypt
\* returns, so the credential model draws it from a one-element set.
Nonces == {0}

\* Encrypt, when the random source delivers: Seal under the instance key.
Encrypt(plaintext, nonce) == CipherText(Key, nonce, plaintext)

\* Decrypt: base64 decode, length check, Open under the instance key.
Decrypt(encryptedString) ==
    IF encryptedString.form = "text"
    THEN [ok |-> FALSE, val |-> EmptyString, why |-> "failed to decode base64"]
    ELSE IF encryptedString.form = "b64text"
    THEN [ok |-> FALSE, val |-> EmptyString, why |-> "ciphertext too short"]
    ELSE IF encryptedString.key # Key
    THEN [ok |-> FALSE, val |-> EmptyString, why |-> "failed to decrypt"]
    ELSE [ok |-> TRUE, val |-> encryptedString.txt, why |-> ""]

\* IsEncrypted: true exactly for valid base64.
IsEncrypted(text) == text.form # "text"

\* ---------------------------------------------------------------- errors
\* An error value: the dynamic type and status of the innermost error and
\* the messages of the fmt.Errorf("...: %w") layers wrapped around it.
NoError == [type |-> "nil", status |-> 0, chain |-> <<>>]
HTTPError(status) == [type |-> "HTTPError", status |-> status, chain |-> <<>>]
NetError == [type |-> "net", status |-> 0, chain |-> <<"failed to send request">>]
CtxError == [type |-> "ctx", status |-> 0, chain |-> <<"context cancelled during backoff">>]
CipherError(why) == [type |-> "cipher", status |-> 0, chain |-> <<why>>]
DecodeError == [type |-> "json", status |-> 0, chain |-> <<"failed to decode response">>]
Wrap(msg, err) == [err EXCEPT !.chain = <<msg>> \o @]

\* err.(*HTTPError): the type assertion sees the outermost value only.
AsHTTPError(err) == err.type = "HTTPError" /\ err.chain = <<>>

VARIABLES
    cfgAccessJWT,        \* tm.cfg.AccessJWT: encrypted-at-rest access credential
    cfgRefreshJWT,       \* tm.cfg.RefreshJWT
    cachedAccessToken,   \* tm.cachedAccessToken
    cachedRefreshToken,  \* tm.cachedRefreshToken
    cachedTokensMutex,   \* [w: holder of the write lock, r: holders of read locks]
    encryptedTokensMutex,
    randFails,           \* whether the platform's random source can fail
    cfgRetryBackoff,     \* c.retryPolicy.RetryBackoff, a time.Duration
    issued,              \* pairs the identity endpoint has handed out
    pc,                  \* position of each goroutine
    gt,                  \* GetToken frame of each goroutine
    dr,                  \* DoRequest frame
    rt,                  \* RefreshToken frame
    pm,                  \* PostMessage frame
    ctxDone,             \* the context of the goroutine's operation is done
    ops,                 \* operations started by the goroutine
    started,             \* the background goroutine has been started
    doneClosed,          \* tm.Done has been closed
    panicked,            \* close of a closed channel
    probe                \* a function applied on its own: input and result

vars == <<cfgAccessJWT, cfgRefreshJWT, cachedAccessToken, cachedRefreshToken,
          cachedTokensMutex, encryptedTokensMutex, randFails, cfgRetryBackoff,
          issued, pc, gt, dr, rt, pm, ctxDone, ops, started, doneClosed,
          panicked, probe>>

tokenVars == <<cfgAccessJWT, cfgRefreshJWT, cachedAccessToken, cachedRefreshToken>>
lockVars == <<cachedTokensMutex, encryptedTokensMutex>>
\* what no step of the manager, the transport or the repository changes
envVars == <<randFails, cfgRetryBackoff, probe>>
envVarsButProbe == <<randFails, cfgRetryBackoff>>

Cached(k) == IF k = AccessToken THEN cachedAccessToken ELSE cachedRefreshToken
Stored(k) == IF k = AccessToken THEN cfgAccessJWT ELSE cfgRefreshJWT

FreeMutex == [w |-> NoProc, r |-> {}]
CanRLock(m) == m.w = NoProc
CanLock(m) == m.w = NoProc /\ m.r = {}
RLock(m, p) == [m EXCEPT !.r = @ \cup {p}]
\* An RUnlock that is left out: the read lock stays held.
RUnlockLeftOut(m, p) == m
RUnlock(m, p) == [m EXCEPT !.r = @ \ {p}]
Lock(m, p) == [m EXCEPT !.w = p]
Unlock(m, p) == [m EXCEPT !.w = NoProc]

\* ---------------------------------------------------------------- frames
\* GetToken: tokenType, the local encryptedToken, the results, the label to
\* return to, and a record of what the call did (first check hit, Decrypt
\* invoked, store read, write lock taken, what a concurrent call's Decrypt
\* did while this call was on its miss path).
GetTokenFrame(k, ret) ==
    [kind |-> k, enc |-> NoString, val |-> EmptyString, err |-> NoError,
     ret |-> ret, hit |-> FALSE, decrypted |-> FALSE, sread |-> FALSE,
     wlock |-> FALSE, peer |-> "none"]

\* DoRequest: url, Authorization bearer, loop variable attempt, requests
\* sent, the local err of the loop (last), the error returned, the
\* decoded body of a successful response, the request body (req), and the
\* time that went by in each backoff wait the call sat through (waited).
\*
\* The request body of a DoRequest call: the body argument, whether the
\* call holds a buffer of the pool, the content of that buffer (buf), the
\* copy kept for retries (bodyBytes), and a record of what the call did:
\* how often it serialized the body, took a buffer, reset it before first
\* writing to it, put it back, and the body each attempt carried.
NilBody == [kind |-> "nil"]
NoRequestBody ==
    [body |-> NilBody, held |-> FALSE, buf |-> <<>>, bodyBytes |-> <<>>,
     encodes |-> 0, gets |-> 0, resets |-> 0, puts |-> 0, carried |-> <<>>]

NoBody == [parsed |-> FALSE, accessJwt |-> EmptyString, refreshJwt |-> EmptyString]

\* A DoRequest whose loop variable starts at the number of DoRequest calls
\* the running PostMessage has already made: one budget for all of them.
DoRequestFrameShared(p, url, bearer, ret) ==
    [url |-> url, bearer |-> bearer,
     attempt |-> IF Len(pm[p].log) < MaxRetries THEN Len(pm[p].log) ELSE MaxRetries,
     sends |-> 0, last |-> NoError, err |-> NoError, body |-> NoBody,
     req |-> NoRequestBody, waited |-> <<>>, ret |-> ret]

\* A DoRequest whose loop variable starts at 1.
DoRequestFrameFromOne(p, url, bearer, ret) ==
    [url |-> url, bearer |-> bearer, attempt |-> 1, sends |-> 0,
     last |-> NoError, err |-> NoError, body |-> NoBody,
     req |-> NoRequestBody, waited |-> <<>>, ret |-> ret]

DoRequestFrame(p, url, bearer, ret) ==
    [url |-> url, bearer |-> bearer, attempt |-> 0, sends |-> 0,
     last |-> NoError, err |-> NoError, body |-> NoBody,
     req |-> NoRequestBody, waited |-> <<>>, ret |-> ret]

\* RefreshToken: whether a call is running, whether no other refresh ran
\* since it started, the parsed response, the encrypted pair, the result,
\* and a record of what the call did: why it failed ("request", "parse"),
\* whether its GetToken filled the cache, whether it wrote the cache from
\* a response, whether it wrote the store; what a GetToken(refresh) call
\* would have returned and what the store held when the call started
\* (atStart, kept until the call's own GetToken has returned), and the
\* bearer the call has presented.
RefreshTokenFrame(ret, solo) ==
    [active |-> TRUE, solo |-> solo, resp |-> NoBody,
     enc |-> <<NoString, NoString>>, err |-> NoError, ret |-> ret,
     cause |-> "", filled |-> FALSE, wroteCache |-> FALSE,
     wroteStore |-> FALSE,
     atStart |-> [ok |-> FALSE, val |-> EmptyString, stored |-> NoString],
     presented |-> <<>>]
NoRefreshTokenFrame == [RefreshTokenFrame("idle", FALSE) EXCEPT !.active = FALSE]

\* PostMessage: createRecord executions and RefreshToken calls made, a log
\* of the DoRequest calls made on its behalf (url, requests sent, error
\* returned), the result of its RefreshToken call, and its own result; the
\* bearer each execution was given, the serialized record each execution
\* sent, and the pair its RefreshToken call received (fresh).
PostMessageFrame ==
    [active |-> TRUE, execs |-> 0, refreshes |-> 0, log |-> <<>>,
     refreshErr |-> NoError, err |-> NoError, bearers |-> <<>>,
     bodies |-> <<>>, fresh |-> NoBody]
NoPostMessageFrame == [PostMessageFrame EXCEPT !.active = FALSE]

\* The frames of a goroutine that is in no call.
NoGetTokenFrame == GetTokenFrame(AccessToken, "idle")
NoDoRequestFrame ==
    [url |-> "", bearer |-> EmptyString, attempt |-> 0, sends |-> 0,
     last |-> NoError, err |-> NoError, body |-> NoBody,
     req |-> NoRequestBody, waited |-> <<>>, ret |-> "idle"]

\* ---- time.Duration: an int64 in two's complement, as the set of its 1 bits
Word == 0..63
RECURSIVE Bits(_)
Bits(n) ==
    IF n = 0 THEN {}
    ELSE (IF n % 2 = 1 THEN {0} ELSE {}) \cup {i + 1 : i \in Bits(n \div 2)}
\* x << k on 64 bits: what is shifted past bit 63 is lost.
Shl64(x, k) == {i + k : i \in x} \cap Word
\* x + y on 64 bits: the sum without carries plus the carries, until none
\* is left.
RECURSIVE Add64(_, _)
Add64(x, y) ==
    IF y = {} THEN x
    ELSE Add64((x \ y) \cup (y \ x), Shl64(x \cap y, 1))
\* x * y on 64 bits, wrapping as Go's integer multiplication does.
RECURSIVE Mul64(_, _)
Mul64(x, y) ==
    IF y = {} THEN {}
    ELSE LET b == CHOOSE i \in y : TRUE
         IN Add64(Shl64(x, b), Mul64(x, y \ {b}))
Negative(x) == 63 \in x
\* x > y of two naturals given by their bits.
GreaterNat(x, y) == \E i \in x \ y : \A j \in y \ x : j < i
\* x > y of two int64.
Greater64(x, y) ==
    IF Negative(x) # Negative(y) THEN Negative(y) ELSE GreaterNat(x, y)

Millisecond == Bits(1000000)
Second == Bits(1000000000)
\* MaxBackoffDuration = 30 * time.Second
MaxBackoffDuration == Mul64(Bits(30), Second)

\* calculateBackoff (lines 146-152).  1<<uint(attempt-1) is a shift of the
\* int64 1: nothing is left of it from a count of 64 on, and uint(-1) is
\* such a count.
calculateBackoff(RetryBackoff, attempt) ==
    LET backoff == Mul64(RetryBackoff,
                         IF attempt >= 1 THEN Shl64({0}, attempt - 1) ELSE {})
    IN IF Greater64(backoff, MaxBackoffDuration)
       THEN MaxBackoffDuration
       ELSE backoff

\* RETRY_BACKOFF when the environment does not set it (config.go line 22).
DefaultRetryBackoff == Mul64(Bits(5), Second)

\* ------------------------------------------------------------------ Init
\* The seeds are whatever strings the configuration holds: plain text,
\* plain text that is valid base64, or values encrypted beforehand with this
\* encryptor or with another key.
SeedForms == {"text", "b64text", "ct", "foreign"}
Seed(form, k) ==
    IF form = "text" THEN PlainText(Tok(k, 0))
    ELSE IF form = "b64text" THEN B64Text(Tok(k, 0))
    ELSE IF form = "ct" THEN CipherText(Key, 0, Tok(k, 0))
    ELSE CipherText(ForeignKey, 0, Tok(k, 0))

\* Seed pairs of the concurrent specifications: both seeds of one form.
SeedPairs == {<<f, f>> : f \in SeedForms}
\* Seed pairs of the sequential specification: also one plain seed with one
\* that is valid base64.
AllSeedPairs == SeedPairs \cup {<<"text", "b64text">>, <<"b64text", "text">>}

\* No function is applied on its own.
NoProbe == [fn |-> "none"]

InitWith(seedPairs, rand, backoffs, probes, entry) ==
    /\ \E fp \in seedPairs :
          /\ cfgAccessJWT = Seed(fp[1], AccessToken)
          /\ cfgRefreshJWT = Seed(fp[2], RefreshToken)
    /\ cachedAccessToken = EmptyString
    /\ cachedRefreshToken = EmptyString
    /\ cachedTokensMutex = FreeMutex
    /\ encryptedTokensMutex = FreeMutex
    /\ randFails \in rand
    /\ cfgRetryBackoff \in backoffs
    /\ issued = 0
    /\ pc = [p \in Procs |-> IF p = "main" THEN entry ELSE "off"]
    /\ gt = [p \in Procs |-> NoGetTokenFrame]
    /\ dr = [p \in Procs |-> NoDoRequestFrame]
    /\ rt = [p \in Procs |-> NoRefreshTokenFrame]
    /\ pm = [p \in Procs |-> NoPostMessageFrame]
    /\ ctxDone = [p \in Procs |-> FALSE]
    /\ ops = [p \in Procs |-> 0]
    /\ started = FALSE
    /\ doneClosed = FALSE
    /\ panicked = FALSE
    /\ probe \in probes

\* The client is configured with the default backoff.
InitFrom(seedPairs, rand, probes, entry) ==
    InitWith(seedPairs, rand, {DefaultRetryBackoff}, probes, entry)

\* The random source delivers in the concurrent specifications.
Init == InitFrom(SeedPairs, {FALSE}, {NoProbe}, "ntm_encrypt")
InitSeq == InitFrom(AllSeedPairs, BOOLEAN, {NoProbe}, "ntm_encrypt")

\* -------------------------------------------------------------- GetToken
\* A first check that never finds the cached value.
CacheHitNever(cachedToken) == FALSE

\* The first check of GetToken (line 118).
CacheHit(cachedToken) == cachedToken # EmptyString

\* GetToken without the double check: the cache is not looked at again.
RecheckSkipped(cachedToken) == FALSE

\* The double check after the write lock is taken (lines 139-143).
Recheck(cachedToken) == cachedToken # EmptyString

GetTokenCall(p, k, ret) ==
    /\ gt' = [gt EXCEPT ![p] = GetTokenFrame(k, ret)]
    /\ pc' = [pc EXCEPT ![p] = "gt_rlock"]

\* tm.cachedTokensMutex.RLock()
GetTokenRLock(p) ==
    /\ pc[p] = "gt_rlock" /\ ~panicked
    /\ CanRLock(cachedTokensMutex)
    /\ cachedTokensMutex' = RLock(cachedTokensMutex, p)
    /\ pc' = [pc EXCEPT ![p] = "gt_check"]
    /\ UNCHANGED <<tokenVars, encryptedTokensMutex, envVars, issued, gt, dr,
                   rt, pm, ctxDone, ops, started, doneClosed, panicked>>

\* read the cache, RUnlock, return on a hit
GetTokenCheck(p) ==
    /\ pc[p] = "gt_check" /\ ~panicked
    /\ cachedTokensMutex' = RUnlock(cachedTokensMutex, p)
    /\ IF CacheHit(Cached(gt[p].kind))
       THEN /\ gt' = [gt EXCEPT ![p].val = Cached(gt[p].kind), ![p].hit = TRUE]
            /\ pc' = [pc EXCEPT ![p] = gt[p].ret]
       ELSE /\ gt' = gt
            /\ pc' = [pc EXCEPT ![p] = "gt_srlock"]
    /\ UNCHANGED <<tokenVars, encryptedTokensMutex, envVars, issued, dr, rt,
                   pm, ctxDone, ops, started, doneClosed, panicked>>

\* tm.encryptedTokensMutex.RLock()
GetTokenStoreRLock(p) ==
    /\ pc[p] = "gt_srlock" /\ ~panicked
    /\ CanRLock(encryptedTokensMutex)
    /\ encryptedTokensMutex' = RLock(encryptedTokensMutex, p)
    /\ pc' = [pc EXCEPT ![p] = "gt_sread"]
    /\ UNCHANGED <<tokenVars, cachedTokensMutex, envVars, issued, gt, dr, rt,
                   pm, ctxDone, ops, started, doneClosed, panicked>>

\* encryptedToken = cfg value, RUnlock
GetTokenStoreRead(p) ==
    /\ pc[p] = "gt_sread" /\ ~panicked
    /\ encryptedTokensMutex' = RUnlock(encryptedTokensMutex, p)
    /\ gt' = [gt EXCEPT ![p].enc = Stored(gt[p].kind), ![p].sread = TRUE]
    /\ pc' = [pc EXCEPT ![p] = "gt_lock"]
    /\ UNCHANGED <<tokenVars, cachedTokensMutex, envVars, issued, dr, rt,
                   pm, ctxDone, ops, started, doneClosed, panicked>>

\* tm.cachedTokensMutex.Lock()
GetTokenLock(p) ==
    /\ pc[p] = "gt_lock" /\ ~panicked
    /\ CanLock(cachedTokensMutex)
    /\ cachedTokensMutex' = Lock(cachedTokensMutex, p)
    /\ gt' = [gt EXCEPT ![p].wlock = TRUE]
    /\ pc' = [pc EXCEPT ![p] = "gt_fill"]
    /\ UNCHANGED <<tokenVars, encryptedTokensMutex, envVars, issued, dr, rt,
                   pm, ctxDone, ops, started, doneClosed, panicked>>

\* Calls on their miss path (first check done, write lock not yet taken)
\* for the same kind as p's.
MissPeers(p) ==
    {q \in Procs \ {p} :
        /\ pc[q] \in {"gt_srlock", "gt_sread", "gt_lock"}
        /\ gt[q].kind = gt[p].kind}

\* double check, Decrypt, cache update, deferred Unlock, return
GetTokenFill(p) ==
    /\ pc[p] = "gt_fill" /\ ~panicked
    /\ cachedTokensMutex' = Unlock(cachedTokensMutex, p)
    /\ pc' = [pc EXCEPT ![p] = gt[p].ret]
    /\ LET k == gt[p].kind
           d == Decrypt(gt[p].enc)
       IN IF Recheck(Cached(k))
          THEN /\ gt' = [gt EXCEPT ![p].val = Cached(k)]
               /\ UNCHANGED <<cachedAccessToken, cachedRefreshToken, rt>>
          ELSE IF ~d.ok
          THEN /\ gt' = [q \in Procs |->
                          IF q = p
                          THEN [gt[p] EXCEPT
                                  !.decrypted = TRUE,
                                  !.err = Wrap("failed to decrypt token",
                                               CipherError(d.why))]
                          ELSE IF q \in MissPeers(p) /\ gt[q].peer = "none"
                          THEN [gt[q] EXCEPT !.peer = "failed"]
                          ELSE gt[q]]
               /\ UNCHANGED <<cachedAccessToken, cachedRefreshToken, rt>>
          ELSE /\ gt' = [q \in Procs |->
                          IF q = p
                          THEN [gt[p] EXCEPT !.decrypted = TRUE, !.val = d.val]
                          ELSE IF q \in MissPeers(p)
                          THEN [gt[q] EXCEPT !.peer =
                                  IF d.val # EmptyString THEN "filled"
                                  ELSE IF @ = "none" THEN "empty" ELSE @]
                          ELSE gt[q]]
               /\ cachedAccessToken' =
                      IF k = AccessToken THEN d.val ELSE cachedAccessToken
               /\ cachedRefreshToken' =
                      IF k = RefreshToken THEN d.val ELSE cachedRefreshToken
               /\ rt' = IF rt[p].active /\ gt[p].ret = "rt_got" /\ d.val # Cached(k)
                        THEN [rt EXCEPT ![p].filled = TRUE]
                        ELSE rt
    /\ UNCHANGED <<cfgAccessJWT, cfgRefreshJWT, encryptedTokensMutex, envVars,
                   issued, dr, pm, ctxDone, ops, started, doneClosed, panicked>>

\* What a GetToken call that runs alone from the current state returns
\* (lines 118-158): the cached value, else the decryption of the stored one.
GetTokenNow(k) ==
    IF CacheHit(Cached(k))
    THEN [ok |-> TRUE, val |-> Cached(k)]
    ELSE [ok |-> Decrypt(Stored(k)).ok, val |-> Decrypt(Stored(k)).val]

\* ------------------------------------------------------------- DoRequest
CreateRecord == "createRecord"
RefreshSession == "refreshSession"

\* What the remote end answers: a status, or no answer at all.
Statuses == {200, 304, 400, 401, 429, 500}

\* A sendRequest that hands the status error on inside another error.
sendRequestWrapped(status) ==
    IF status < 200 \/ status >= 300
    THEN Wrap("request failed", HTTPError(status))
    ELSE NoError

\* sendRequest (lines 198-228): a transport failure is wrapped, a status
\* outside [200, 300) becomes an *HTTPError carrying the status.
sendRequest(status) ==
    IF status < 200 \/ status >= 300 THEN HTTPError(status) ELSE NoError

\* A classification that looks at the budget only.
shouldRetryBudgetOnly(err, attempt) == attempt < MaxRetries

\* A classification that retries transport failures, 5xx and 429 only.
shouldRetryServerOnly(err, attempt) ==
    IF attempt >= MaxRetries THEN FALSE
    ELSE IF AsHTTPError(err)
    THEN (err.status >= 500 /\ err.status < 600) \/ err.status = 429
    ELSE TRUE

\* shouldRetry (lines 155-180)
shouldRetry(err, attempt) ==
    IF attempt >= MaxRetries THEN FALSE
    ELSE IF AsHTTPError(err)
    THEN ~(err.status >= 400 /\ err.status < 500 /\ err.status # 429)
    ELSE TRUE

\* Bodies of a 200 answer of refreshSession: a full pair of the next
\* generation, the same with one field missing (json leaves the field at its
\* zero value), or something that is no JSON object.
RefreshBodies(g) ==
    {[parsed |-> TRUE, accessJwt |-> Tok(AccessToken, g),
      refreshJwt |-> Tok(RefreshToken, g)],
     [parsed |-> TRUE, accessJwt |-> EmptyString,
      refreshJwt |-> Tok(RefreshToken, g)],
     [parsed |-> TRUE, accessJwt |-> Tok(AccessToken, g),
      refreshJwt |-> EmptyString]}

\* The outcomes of one attempt: the error sendRequest returns, the body of
\* the response, whether the context ended during the attempt, and whether
\* the identity endpoint issued a pair.
Outcomes(p) ==
    IF ctxDone[p]
    THEN {[err |-> NetError, body |-> NoBody, ctx |-> TRUE, pair |-> FALSE]}
    ELSE {[err |-> NetError, body |-> NoBody, ctx |-> c, pair |-> FALSE] :
             c \in BOOLEAN}
         \cup {[err |-> sendRequest(s), body |-> NoBody, ctx |-> FALSE,
                pair |-> FALSE] :
                 s \in IF dr[p].url = CreateRecord
                       THEN Statuses ELSE Statuses \ {200}}
         \cup (IF dr[p].url = RefreshSession
               THEN {[err |-> sendRequest(200), body |-> NoBody, ctx |-> FALSE,
                      pair |-> FALSE]}
                    \cup (IF issued < MaxIssued
                          THEN {[err |-> sendRequest(200), body |-> b,
                                 ctx |-> FALSE, pair |-> TRUE] :
                                   b \in RefreshBodies(issued + 1)}
                          ELSE {})
               ELSE {})

\* ---- the request body and the buffer pool
\* Bodies handed to DoRequest: the record of PostMessage and a value json
\* cannot encode (a channel, a function).
RecordBody == [kind |-> "record"]
UnencodableBody == [kind |-> "chan"]
EncodeError == [type |-> "json", status |-> 0, chain |-> <<"unsupported type">>]

\* json.NewEncoder(buf).Encode(body): the JSON text and a newline are
\* appended to the buffer, or nothing is written and an error returned.
Encode(content, body) ==
    IF body = UnencodableBody
    THEN [buf |-> content, err |-> EncodeError]
    ELSE [buf |-> content \o <<[json |-> body.kind], "\n">>, err |-> NoError]

\* What bufferPool.Get() hands out: a new buffer, or one a previous user put
\* back with the bytes it had written.
PoolBuffers == {<<>>, <<"stale">>}

\* buf.Reset()
Reset(content) == <<>>

\* A call that never gives its buffer back.
PutNever(req) == req

\* c.bufferPool.Put(buf), deferred at line 90: runs when DoRequest returns
\* if a buffer was taken.
Put(req) ==
    IF req.held
    THEN [req EXCEPT !.held = FALSE, !.buf = <<>>, !.puts = @ + 1]
    ELSE req

\* A retry that sends the buffer as the previous attempt left it.
RestoreSkipped(req) == req

\* lines 117-121: before a retry the buffer is filled from the copy again.
Restore(req) ==
    IF req.held /\ Len(req.bodyBytes) > 0
    THEN [req EXCEPT !.buf = Reset(req.buf) \o req.bodyBytes]
    ELSE req

\* lines 85-99: the buffer is taken, reset, written by the encoder and
\* copied; got is what the pool handed out.
Prepare(body, got) ==
    IF body = NilBody THEN [req |-> NoRequestBody, err |-> NoError]
    ELSE LET e == Encode(Reset(got), body)
             r == [NoRequestBody EXCEPT
                     !.body = body, !.held = TRUE, !.gets = 1,
                     !.resets = IF Reset(got) = <<>> THEN 1 ELSE 0,
                     !.buf = e.buf]
         IN IF e.err # NoError
            THEN [req |-> r,
                  err |-> Wrap("failed to encode request body", e.err)]
            ELSE [req |-> [r EXCEPT !.encodes = 1, !.bodyBytes = e.buf],
                  err |-> NoError]

\* sendRequest hands the buffer to the request as its body: the request
\* carries what the buffer holds, and the transport has read the first n
\* parts of it when sendRequest returns.
Carry(req, n) ==
    IF req.held
    THEN [req EXCEPT !.carried = Append(@, req.buf),
                     !.buf = SubSeq(req.buf, n + 1, Len(req.buf))]
    ELSE req

\* lines 84-99, up to the loop; an encode failure returns at line 93.
DoRequestCall(p, url, body, bearer, ret) ==
    \E got \in PoolBuffers :
        LET prep == Prepare(body, got)
            f == [DoRequestFrame(p, url, bearer, ret) EXCEPT !.req = prep.req]
        IN IF prep.err # NoError
           THEN /\ dr' = [dr EXCEPT ![p] =
                            [f EXCEPT !.err = prep.err, !.req = Put(@)]]
                /\ pc' = [pc EXCEPT ![p] = ret]
           ELSE /\ dr' = [dr EXCEPT ![p] = f]
                /\ pc' = [pc EXCEPT ![p] = "dr_send"]

\* One pass of the loop body from sendRequest on (lines 124-139), and the
\* loop exit (line 142).  The local err holds the result of the attempt
\* until the backoff that follows it is over; after that it is dead (the
\* next sendRequest assigns it) and the frame holds nil.
DoRequestSend(p) ==
    /\ pc[p] = "dr_send" /\ ~panicked
    /\ \E o \in Outcomes(p), n \in 0..Len(dr[p].req.buf) :
          /\ ctxDone' = [ctxDone EXCEPT ![p] = o.ctx]
          /\ issued' = IF o.pair THEN issued + 1 ELSE issued
          /\ LET f == [dr[p] EXCEPT !.sends = @ + 1, !.last = o.err,
                                    !.req = Carry(@, n)]
             IN IF o.err = NoError
                THEN /\ dr' = [dr EXCEPT ![p] =
                                 [f EXCEPT !.body = o.body, !.req = Put(@)]]
                     /\ pc' = [pc EXCEPT ![p] = f.ret]
                ELSE IF ~shouldRetry(o.err, f.attempt)
                THEN /\ dr' = [dr EXCEPT ![p] =
                                 [f EXCEPT !.err = o.err, !.req = Put(@)]]
                     /\ pc' = [pc EXCEPT ![p] = f.ret]
                ELSE IF f.attempt + 1 <= MaxRetries
                THEN /\ dr' = [dr EXCEPT ![p] = [f EXCEPT !.attempt = @ + 1]]
                     /\ pc' = [pc EXCEPT ![p] = "dr_backoff"]
                ELSE /\ dr' = [dr EXCEPT ![p] =
                                 [f EXCEPT !.attempt = @ + 1,
                                           !.err = Wrap("request failed after attempts", o.err),
                                           !.req = Put(@)]]
                     /\ pc' = [pc EXCEPT ![p] = f.ret]
    /\ UNCHANGED <<tokenVars, lockVars, envVars, gt, rt, pm, ops, started,
                   doneClosed, panicked>>

\* A timer that fires at once whatever the duration.
TimeAfterAtOnce(d) == {}

\* time.After(d), line 111: the channel delivers once d has gone by, at once
\* when d is zero or negative; the time that has gone by when it delivers.
TimeAfter(d) == IF Negative(d) THEN {} ELSE d

\* A wait that has the timer case only.
BackoffSelectTimerOnly(p, cancelled) == [pc |-> "dr_send", err |-> NoError]

\* The two cases of the select (lines 110-115): where DoRequest goes on and
\* what it returns.
BackoffSelect(p, cancelled) ==
    IF cancelled
    THEN [pc |-> dr[p].ret, err |-> CtxError]
    ELSE [pc |-> "dr_send", err |-> NoError]

\* The select of lines 110-115: the backoff elapses, or the context ends
\* first (a context that is already done wins against a timer that has
\* time to run; against a timer of no time either case can be chosen);
\* and the refill of the buffer that follows the wait (lines 117-121).
DoRequestBackoff(p) ==
    /\ pc[p] = "dr_backoff" /\ ~panicked
    /\ \E cancelled \in BOOLEAN :
          /\ ~cancelled =>
                \/ ~ctxDone[p]
                \/ TimeAfter(calculateBackoff(cfgRetryBackoff, dr[p].attempt)) = {}
          /\ ctxDone' = [ctxDone EXCEPT ![p] = @ \/ cancelled]
          /\ dr' = [dr EXCEPT ![p].err = BackoffSelect(p, cancelled).err,
                              ![p].last = NoError,
                              ![p].waited =
                                  IF cancelled THEN @
                                  ELSE Append(@, TimeAfter(calculateBackoff(
                                           cfgRetryBackoff, dr[p].attempt))),
                              ![p].req = IF cancelled THEN Put(@)
                                         ELSE Restore(@)]
          /\ pc' = [pc EXCEPT ![p] = BackoffSelect(p, cancelled).pc]
    /\ UNCHANGED <<tokenVars, lockVars, envVars, issued, gt, rt, pm, ops,
                   started, doneClosed, panicked>>

\* ---------------------------------------------------------- RefreshToken
\* A cache update that replaces the refresh credential only.
RefreshedCachePartial(resp) == <<cachedAccessToken, resp.refreshJwt>>

\* The pair RefreshToken writes into the cache (lines 217-218).
RefreshedCache(resp) == <<resp.accessJwt, resp.refreshJwt>>

\* The pair RefreshToken writes into the store (lines 222-235).
RefreshedStore(resp, n) ==
    <<Encrypt(resp.accessJwt, n), Encrypt(resp.refreshJwt, n)>>

\* A RefreshToken that ignores the result of DecodeJSONResponse.
DecodeFailsIgnored(body) == FALSE

\* DecodeJSONResponse fails (lines 211-213).
DecodeFails(body) == ~body.parsed

\* A call that starts with cached in the cache and stored in the store.
RefreshTokenCallWith(p, ret, cached, stored) ==
    /\ rt' = [q \in Procs |->
                IF q = p
                THEN [RefreshTokenFrame(ret, \A r \in Procs \ {p} : ~rt[r].active)
                        EXCEPT !.atStart =
                                 IF CacheHit(cached)
                                 THEN [ok |-> TRUE, val |-> cached,
                                       stored |-> stored]
                                 ELSE [ok |-> Decrypt(stored).ok,
                                       val |-> Decrypt(stored).val,
                                       stored |-> stored]]
                ELSE [rt[q] EXCEPT !.solo = FALSE]]
    /\ GetTokenCall(p, RefreshToken, "rt_got")

RefreshTokenCall(p, ret) ==
    RefreshTokenCallWith(p, ret, cachedRefreshToken, cfgRefreshJWT)

\* The record of what the call found when it started and of what it
\* presented ends with the call.
RefreshTokenReturn(p, frame, err) ==
    /\ rt' = [rt EXCEPT ![p] =
                [frame EXCEPT !.active = FALSE, !.err = err,
                              !.atStart = NoRefreshTokenFrame.atStart,
                              !.presented = <<>>]]
    /\ pc' = [pc EXCEPT ![p] = frame.ret]

\* lines 186-196: the Authorization header is built from what
\* GetToken(RefreshToken) returned.
RefreshBearer(p) == gt[p].val

\* lines 186-199: the result of GetToken(RefreshToken), then DoRequest
RefreshTokenRequest(p) ==
    /\ pc[p] = "rt_got" /\ ~panicked
    /\ IF gt[p].err # NoError
       THEN /\ RefreshTokenReturn(p, rt[p], Wrap("failed to get refresh token", gt[p].err))
            /\ dr' = dr
       ELSE /\ DoRequestCall(p, RefreshSession, NilBody, RefreshBearer(p), "rt_resp")
            /\ rt' = [rt EXCEPT ![p].presented = <<RefreshBearer(p)>>,
                                ![p].atStart = NoRefreshTokenFrame.atStart]
    /\ gt' = [gt EXCEPT ![p] = NoGetTokenFrame]
    /\ UNCHANGED <<tokenVars, lockVars, envVars, issued, pm, ctxDone,
                   ops, started, doneClosed, panicked>>

\* lines 200-213: the result of DoRequest, then DecodeJSONResponse
RefreshTokenDecode(p) ==
    /\ pc[p] = "rt_resp" /\ ~panicked
    /\ pm' = IF pm[p].active
             THEN [pm EXCEPT ![p].log =
                      Append(@, [url |-> dr[p].url, sends |-> dr[p].sends,
                                 err |-> dr[p].err])]
             ELSE pm
    /\ LET f == [rt[p] EXCEPT !.cause =
                     IF dr[p].err # NoError THEN "request"
                     ELSE IF ~dr[p].body.parsed THEN "parse" ELSE ""]
       IN IF dr[p].err # NoError
          THEN RefreshTokenReturn(p, f, Wrap("failed to refresh token", dr[p].err))
          ELSE IF DecodeFails(dr[p].body)
          THEN RefreshTokenReturn(p, f,
                   Wrap("failed to decode refresh response", DecodeError))
          ELSE /\ rt' = [rt EXCEPT ![p] = [f EXCEPT !.resp = dr[p].body]]
               /\ pc' = [pc EXCEPT ![p] = "rt_clock"]
    /\ dr' = [dr EXCEPT ![p] = NoDoRequestFrame]
    /\ UNCHANGED <<tokenVars, lockVars, envVars, issued, gt, ctxDone,
                   ops, started, doneClosed, panicked>>

\* line 216: tm.cachedTokensMutex.Lock()
RefreshTokenCacheLock(p) ==
    /\ pc[p] = "rt_clock" /\ ~panicked
    /\ CanLock(cachedTokensMutex)
    /\ cachedTokensMutex' = Lock(cachedTokensMutex, p)
    /\ pc' = [pc EXCEPT ![p] = "rt_cache"]
    /\ UNCHANGED <<tokenVars, encryptedTokensMutex, envVars, issued, gt, dr,
                   rt, pm, ctxDone, ops, started, doneClosed, panicked>>

\* lines 217-219: both cached credentials are replaced, Unlock
RefreshTokenCacheUpdate(p) ==
    /\ pc[p] = "rt_cache" /\ ~panicked
    /\ cachedAccessToken' = RefreshedCache(rt[p].resp)[1]
    /\ cachedRefreshToken' = RefreshedCache(rt[p].resp)[2]
    /\ cachedTokensMutex' = Unlock(cachedTokensMutex, p)
    /\ rt' = [rt EXCEPT ![p].wroteCache = TRUE]
    /\ gt' = [q \in Procs |->
                IF /\ gt[q].peer = "filled"
                   /\ pc[q] \in {"gt_srlock", "gt_sread", "gt_lock"}
                   /\ EmptyString =
                        IF gt[q].kind = AccessToken
                        THEN RefreshedCache(rt[p].resp)[1]
                        ELSE RefreshedCache(rt[p].resp)[2]
                THEN [gt[q] EXCEPT !.peer = "emptied"]
                ELSE gt[q]]
    /\ pc' = [pc EXCEPT ![p] = "rt_enc"]
    /\ UNCHANGED <<cfgAccessJWT, cfgRefreshJWT, encryptedTokensMutex, envVars,
                   issued, dr, pm, ctxDone, ops, started, doneClosed, panicked>>

\* lines 222-233: Encrypt both credentials (either may fail when the random
\* source does), then tm.encryptedTokensMutex.Lock()
RefreshTokenEncrypt(p) ==
    /\ pc[p] = "rt_enc" /\ ~panicked
    /\ \E fails \in {FALSE, randFails}, n \in Nonces :
          IF fails
          THEN /\ RefreshTokenReturn(p, rt[p],
                       Wrap("failed to encrypt new token", CipherError("failed to generate nonce")))
               /\ encryptedTokensMutex' = encryptedTokensMutex
          ELSE /\ CanLock(encryptedTokensMutex)
               /\ encryptedTokensMutex' = Lock(encryptedTokensMutex, p)
               /\ rt' = [rt EXCEPT ![p].enc = RefreshedStore(rt[p].resp, n)]
               /\ pc' = [pc EXCEPT ![p] = "rt_store"]
    /\ UNCHANGED <<tokenVars, cachedTokensMutex, envVars, issued, gt, dr, pm,
                   ctxDone, ops, started, doneClosed, panicked>>

\* lines 234-239: both stored values are replaced, Unlock, return nil
RefreshTokenStoreUpdate(p) ==
    /\ pc[p] = "rt_store" /\ ~panicked
    /\ cfgAccessJWT' = rt[p].enc[1]
    /\ cfgRefreshJWT' = rt[p].enc[2]
    /\ encryptedTokensMutex' = Unlock(encryptedTokensMutex, p)
    /\ RefreshTokenReturn(p, [rt[p] EXCEPT !.wroteStore = TRUE], NoError)
    /\ UNCHANGED <<cachedAccessToken, cachedRefreshToken, cachedTokensMutex,
                   envVars, issued, gt, dr, pm, ctxDone, ops, started,
                   doneClosed, panicked>>

\* ----------------------------------------------------------- PostMessage
\* A check that takes every 4xx status for an expired credential.
IsClientError(err) == AsHTTPError(err) /\ err.status >= 400 /\ err.status < 500

\* The 401 check of line 71.
IsUnauthorized(err) == AsHTTPError(err) /\ err.status = 401

LogEntry(p) == [url |-> dr[p].url, sends |-> dr[p].sends, err |-> dr[p].err]

PostMessageReturn(p, frame, err) ==
    /\ pm' = [pm EXCEPT ![p] = [frame EXCEPT !.active = FALSE, !.err = err]]
    /\ pc' = [pc EXCEPT ![p] = "idle"]

\* lines 44-68: the result of GetToken(AccessToken), then the first DoRequest
PostMessageSend(p) ==
    /\ pc[p] = "pm_got" /\ ~panicked
    /\ IF gt[p].err # NoError
       THEN /\ PostMessageReturn(p, pm[p], Wrap("failed to get access token", gt[p].err))
            /\ dr' = dr
       ELSE /\ DoRequestCall(p, CreateRecord, RecordBody, gt[p].val, "pm_resp")
            /\ pm' = [pm EXCEPT ![p].execs = @ + 1,
                                ![p].bearers = Append(@, gt[p].val)]
    /\ gt' = [gt EXCEPT ![p] = NoGetTokenFrame]
    /\ UNCHANGED <<tokenVars, lockVars, envVars, issued, rt, ctxDone,
                   ops, started, doneClosed, panicked>>

\* lines 69-74 and 90-96: the result of the first DoRequest
PostMessageResult(p) ==
    /\ pc[p] = "pm_resp" /\ ~panicked
    /\ LET f == [pm[p] EXCEPT !.log = Append(@, LogEntry(p)),
                              !.bodies = Append(@, dr[p].req.bodyBytes)]
       IN IF dr[p].err = NoError
          THEN /\ PostMessageReturn(p, f, NoError)
               /\ UNCHANGED <<gt, rt>>
          ELSE IF IsUnauthorized(dr[p].err)
          THEN /\ pm' = [pm EXCEPT ![p] = [f EXCEPT !.refreshes = @ + 1]]
               /\ RefreshTokenCall(p, "pm_refreshed")
          ELSE /\ PostMessageReturn(p, f, Wrap("failed to post message", dr[p].err))
               /\ UNCHANGED <<gt, rt>>
    /\ dr' = [dr EXCEPT ![p] = NoDoRequestFrame]
    /\ UNCHANGED <<tokenVars, lockVars, envVars, issued, ctxDone, ops,
                   started, doneClosed, panicked>>

\* A PostMessage that goes on to post whatever RefreshToken returned.
RefreshFailedIgnored(err) == FALSE

\* The check of the result of RefreshToken (line 72).
RefreshFailed(err) == err # NoError

\* lines 72-80: the result of RefreshToken, then GetToken(AccessToken)
PostMessageRefreshed(p) ==
    /\ pc[p] = "pm_refreshed" /\ ~panicked
    /\ LET f == [pm[p] EXCEPT !.refreshErr = rt[p].err, !.fresh = rt[p].resp]
       IN IF RefreshFailed(rt[p].err)
          THEN /\ PostMessageReturn(p, f, Wrap("failed to refresh token", rt[p].err))
               /\ gt' = gt
          ELSE /\ pm' = [pm EXCEPT ![p] = f]
               /\ GetTokenCall(p, AccessToken, "pm_got2")
    /\ rt' = [rt EXCEPT ![p] = NoRefreshTokenFrame]
    /\ UNCHANGED <<tokenVars, lockVars, envVars, issued, dr, ctxDone,
                   ops, started, doneClosed, panicked>>

\* A retry that presents the credential of the first execution again.
RetryBearerStale(p) == pm[p].bearers[1]

\* lines 77-83: the Authorization header of the retry is rebuilt from the
\* result of the GetToken call made after RefreshToken returned.
RetryBearer(p) == gt[p].val

\* lines 77-86: the result of the second GetToken, then the second DoRequest
PostMessageRetry(p) ==
    /\ pc[p] = "pm_got2" /\ ~panicked
    /\ IF gt[p].err # NoError
       THEN /\ PostMessageReturn(p, pm[p],
                    Wrap("failed to get refreshed access token", gt[p].err))
            /\ dr' = dr
       ELSE /\ DoRequestCall(p, CreateRecord, RecordBody, RetryBearer(p), "pm_resp2")
            /\ pm' = [pm EXCEPT ![p].execs = @ + 1,
                                ![p].bearers = Append(@, RetryBearer(p))]
    /\ gt' = [gt EXCEPT ![p] = NoGetTokenFrame]
    /\ UNCHANGED <<tokenVars, lockVars, envVars, issued, rt, ctxDone,
                   ops, started, doneClosed, panicked>>

\* A retry whose outcome is reported as a failure whatever it was.
RetryErrorAlways(err) == Wrap("failed to post message after token refresh", err)

\* What PostMessage returns after the second DoRequest (lines 87-96).
RetryError(err) ==
    IF err # NoError
    THEN Wrap("failed to post message after token refresh", err)
    ELSE NoError

\* lines 86-96: the result of the second DoRequest
PostMessageRetryResult(p) ==
    /\ pc[p] = "pm_resp2" /\ ~panicked
    /\ PostMessageReturn(p, [pm[p] EXCEPT
                                 !.log = Append(@, LogEntry(p)),
                                 !.bodies = Append(@, dr[p].req.bodyBytes)],
                         RetryError(dr[p].err))
    /\ dr' = [dr EXCEPT ![p] = NoDoRequestFrame]
    /\ UNCHANGED <<tokenVars, lockVars, envVars, issued, gt, rt, ctxDone,
                   ops, started, doneClosed, panicked>>

\* ------------------------------------------------------- NewTokenManager
\* encryptTokensIfNeeded (lines 70-105), run by the constructor before any
\* other goroutine exists, then the eager RefreshToken call (line 55).
\* A check that takes the seeds for encrypted when either of them is.
AlreadyEncryptedEither(accessJWT, refreshJWT) ==
    IsEncrypted(accessJWT) \/ IsEncrypted(refreshJWT)

\* The check of lines 75-79: the access seed is looked at, the refresh seed
\* is not.
AlreadyEncrypted(accessJWT, refreshJWT) == IsEncrypted(accessJWT)

NewTokenManagerEncrypt(p) ==
    /\ pc[p] = "ntm_encrypt" /\ ~panicked
    /\ \E fails \in {FALSE, randFails}, n \in Nonces :
          IF AlreadyEncrypted(cfgAccessJWT, cfgRefreshJWT) \/ fails
          THEN UNCHANGED tokenVars
          ELSE /\ cfgAccessJWT' = Encrypt(cfgAccessJWT.txt, n)
               /\ cfgRefreshJWT' = Encrypt(cfgRefreshJWT.txt, n)
               /\ cachedAccessToken' = cfgAccessJWT.txt
               /\ cachedRefreshToken' = cfgRefreshJWT.txt
    /\ RefreshTokenCallWith(p, "ntm_refreshed", cachedRefreshToken',
                            cfgRefreshJWT')
    /\ UNCHANGED <<lockVars, envVars, issued, dr, pm, ctxDone, ops, started,
                   doneClosed, panicked>>

\* A constructor that starts the background goroutine without waiting for
\* the eager refresh to return.
NewTokenManagerStartEarly(p) ==
    /\ ~panicked
    /\ \/ pc[p] = "ntm_refreshed"
       \/ ~started /\ rt[p].active /\ rt[p].ret = "ntm_refreshed"
    /\ started' = TRUE
    /\ pc' = [q \in Procs |->
                IF q = p THEN (IF pc[p] = "ntm_refreshed" THEN "idle" ELSE pc[p])
                ELSE IF q = "bg" /\ ~started THEN "bg_wait"
                ELSE IF ~started THEN "idle" ELSE pc[q]]
    /\ ctxDone' = ctxDone
    /\ UNCHANGED <<tokenVars, lockVars, envVars, issued, gt, dr, rt, pm, ops,
                   doneClosed, panicked>>

\* lines 56-66: the eager refresh has returned (its error is only logged);
\* the ticker and the background goroutine start, the manager is returned.
NewTokenManagerStart(p) ==
    /\ pc[p] = "ntm_refreshed" /\ ~panicked
    /\ started' = TRUE
    /\ pc' = [q \in Procs |->
                IF q = p THEN "idle" ELSE IF q = "bg" THEN "bg_wait" ELSE "idle"]
    /\ ctxDone' = [ctxDone EXCEPT ![p] = FALSE]
    /\ UNCHANGED <<tokenVars, lockVars, envVars, issued, gt, dr, rt, pm, ops,
                   doneClosed, panicked>>

\* ------------------------------------------------ backgroundTokenRefresh
\* case <-tm.refreshTick.C (lines 165-173); the result is only logged
BackgroundTickUpTo(p, limit) ==
    /\ pc[p] = "bg_wait" /\ ~panicked
    /\ ops[p] < limit
    /\ ops' = [ops EXCEPT ![p] = @ + 1]
    /\ ctxDone' = [ctxDone EXCEPT ![p] = FALSE]
    /\ RefreshTokenCall(p, "bg_log")
    /\ UNCHANGED <<tokenVars, lockVars, envVars, issued, dr, pm, started,
                   doneClosed, panicked>>

BackgroundTick(p) == BackgroundTickUpTo(p, MaxTicks)

\* A cycle that gives up when a refresh has failed.
BackgroundLogFatal(p) ==
    /\ pc[p] = "bg_log" /\ ~panicked
    /\ rt' = [rt EXCEPT ![p] = NoRefreshTokenFrame]
    /\ pc' = [pc EXCEPT ![p] = IF rt[p].err # NoError THEN "bg_exit" ELSE "bg_wait"]
    /\ UNCHANGED <<tokenVars, lockVars, envVars, issued, gt, dr, pm, ctxDone,
                   ops, started, doneClosed, panicked>>

\* lines 168-173: the result of RefreshToken is logged, cancel()
BackgroundLog(p) ==
    /\ pc[p] = "bg_log" /\ ~panicked
    /\ rt' = [rt EXCEPT ![p] = NoRefreshTokenFrame]
    /\ pc' = [pc EXCEPT ![p] = "bg_wait"]
    /\ UNCHANGED <<tokenVars, lockVars, envVars, issued, gt, dr, pm, ctxDone,
                   ops, started, doneClosed, panicked>>

\* A cycle whose select has no Done case.
BackgroundStopDeaf(p) ==
    /\ pc[p] = "bg_wait" /\ ~panicked
    /\ doneClosed
    /\ UNCHANGED vars

\* case <-tm.Done (lines 174-177)
BackgroundStop(p) ==
    /\ pc[p] = "bg_wait" /\ ~panicked
    /\ doneClosed
    /\ pc' = [pc EXCEPT ![p] = "bg_exit"]
    /\ UNCHANGED <<tokenVars, lockVars, envVars, issued, gt, dr, rt, pm,
                   ctxDone, ops, started, doneClosed, panicked>>

\* ------------------------------------------------- operations of callers
Limit(p) == IF p = "main" THEN MaxOps ELSE MaxReads

StartOpUpTo(p, limit) ==
    /\ pc[p] = "idle" /\ ~panicked
    /\ ops[p] < limit
    /\ ops' = [ops EXCEPT ![p] = @ + 1]
    /\ ctxDone' = [ctxDone EXCEPT ![p] = FALSE]

StartOp(p) == StartOpUpTo(p, Limit(p))

\* The results of the goroutine's previous operation are dropped when it
\* starts the next one.
CallGetToken(p, k) ==
    /\ StartOp(p)
    /\ GetTokenCall(p, k, "idle")
    /\ rt' = [rt EXCEPT ![p] = NoRefreshTokenFrame]
    /\ pm' = [pm EXCEPT ![p] = NoPostMessageFrame]
    /\ UNCHANGED <<tokenVars, lockVars, envVars, issued, dr, started,
                   doneClosed, panicked>>

CallRefreshToken(p) ==
    /\ StartOp(p)
    /\ RefreshTokenCall(p, "idle")
    /\ pm' = [pm EXCEPT ![p] = NoPostMessageFrame]
    /\ UNCHANGED <<tokenVars, lockVars, envVars, issued, dr, started,
                   doneClosed, panicked>>

CallPostMessage(p) ==
    /\ StartOp(p)
    /\ pm' = [pm EXCEPT ![p] = PostMessageFrame]
    /\ rt' = [rt EXCEPT ![p] = NoRefreshTokenFrame]
    /\ GetTokenCall(p, AccessToken, "pm_got")
    /\ UNCHANGED <<tokenVars, lockVars, envVars, issued, dr, started,
                   doneClosed, panicked>>

\* A Shutdown that closes tm.Done only when it is still open.
ShutdownIdempotent(p, limit) ==
    /\ StartOpUpTo(p, limit)
    /\ doneClosed' = TRUE
    /\ panicked' = panicked
    /\ gt' = [gt EXCEPT ![p] = NoGetTokenFrame]
    /\ rt' = [rt EXCEPT ![p] = NoRefreshTokenFrame]
    /\ pm' = [pm EXCEPT ![p] = NoPostMessageFrame]
    /\ UNCHANGED <<tokenVars, lockVars, envVars, issued, pc, dr, started>>

\* TokenManager.Shutdown (lines 243-245): close(tm.Done)
ShutdownUpTo(p, limit) ==
    /\ StartOpUpTo(p, limit)
    /\ IF doneClosed
       THEN /\ panicked' = TRUE
            /\ doneClosed' = doneClosed
       ELSE /\ doneClosed' = TRUE
            /\ panicked' = panicked
    /\ gt' = [gt EXCEPT ![p] = NoGetTokenFrame]
    /\ rt' = [rt EXCEPT ![p] = NoRefreshTokenFrame]
    /\ pm' = [pm EXCEPT ![p] = NoPostMessageFrame]
    /\ UNCHANGED <<tokenVars, lockVars, envVars, issued, pc, dr, started>>

Shutdown(p) == ShutdownUpTo(p, Limit(p))

\* ------------------------------------------------------------------ main
\* The goroutines that receive from the repository's Done channel: the
\* channel is made unbuffered by NewBlueskyRepository and no code of the
\* program receives from it; BlueskyRepository.Shutdown, which would close
\* it, is never called by main.
RepoDoneReceivers == {}

\* main.go lines 170-175: case sig := <-sigChan; the message is printed and
\* main sends on blueskyRepo.Done. The send on an unbuffered channel
\* completes when a receiver takes the value; until then main is parked in
\* it ("main_send"). After the send main returns, running its deferred
\* ticker.Stop() and cancel().
MainSignal(p) ==
    /\ pc[p] = "idle" /\ ~panicked
    /\ pc' = [pc EXCEPT ![p] =
                IF RepoDoneReceivers # {} THEN "main_returned" ELSE "main_send"]
    /\ UNCHANGED <<tokenVars, lockVars, envVars, issued, gt, dr, rt, pm,
                   ctxDone, ops, started, doneClosed, panicked>>

\* ------------------------------------------- TokenEncryptor on its bytes
\* A Go string or byte slice: the sequence of its bytes (0..255).
\*
\* base64.StdEncoding: the alphabet A-Z a-z 0-9 + / as ASCII codes, and the
\* padding character.
B64Code(i) ==
    IF i < 26 THEN 65 + i
    ELSE IF i < 52 THEN 97 + (i - 26)
    ELSE IF i < 62 THEN 48 + (i - 52)
    ELSE IF i = 62 THEN 43
    ELSE 47
B64Alphabet == {B64Code(i) : i \in 0..63}
B64Index(c) == CHOOSE i \in 0..63 : B64Code(i) = c
Pad == 61
LineBreaks == {10, 13}

\* base64.StdEncoding.EncodeToString: three bytes become four characters;
\* one or two bytes left over are padded.
RECURSIVE EncodeToString(_)
EncodeToString(src) ==
    IF src = <<>> THEN <<>>
    ELSE IF Len(src) = 1
    THEN <<B64Code(src[1] \div 4), B64Code((src[1] % 4) * 16), Pad, Pad>>
    ELSE IF Len(src) = 2
    THEN <<B64Code(src[1] \div 4),
           B64Code((src[1] % 4) * 16 + src[2] \div 16),
           B64Code((src[2] % 16) * 4), Pad>>
    ELSE <<B64Code(src[1] \div 4),
           B64Code((src[1] % 4) * 16 + src[2] \div 16),
           B64Code((src[2] % 16) * 4 + src[3] \div 64),
           B64Code(src[3] % 64)>>
         \o EncodeToString(SubSeq(src, 4, Len(src)))

\* The decoder on a text without line breaks, four characters at a time;
\* padding is accepted in the last four only.
RECURSIVE DecodeQuanta(_)
DecodeQuanta(str) ==
    IF str = <<>> THEN [ok |-> TRUE, bytes |-> <<>>]
    ELSE IF Len(str) < 4 THEN [ok |-> FALSE, bytes |-> <<>>]
    ELSE LET rest == SubSeq(str, 5, Len(str))
             in(k) == str[k] \in B64Alphabet
             v(k) == B64Index(str[k])
         IN IF in(1) /\ in(2) /\ in(3) /\ in(4)
            THEN LET r == DecodeQuanta(rest)
                 IN IF r.ok
                    THEN [ok |-> TRUE,
                          bytes |-> <<v(1) * 4 + v(2) \div 16,
                                      (v(2) % 16) * 16 + v(3) \div 4,
                                      (v(3) % 4) * 64 + v(4)>> \o r.bytes]
                    ELSE r
            ELSE IF rest = <<>> /\ in(1) /\ in(2) /\ in(3) /\ str[4] = Pad
            THEN [ok |-> TRUE,
                  bytes |-> <<v(1) * 4 + v(2) \div 16,
                              (v(2) % 16) * 16 + v(3) \div 4>>]
            ELSE IF rest = <<>> /\ in(1) /\ in(2) /\ str[3] = Pad /\ str[4] = Pad
            THEN [ok |-> TRUE, bytes |-> <<v(1) * 4 + v(2) \div 16>>]
            ELSE [ok |-> FALSE, bytes |-> <<>>]

\* base64.StdEncoding.DecodeString: \r and \n are skipped.
DecodeString(str) ==
    DecodeQuanta(SelectSeq(str, LAMBDA c : c \notin LineBreaks))

\* AES-256-GCM comes from crypto/cipher; it stands here with its sizes, a
\* keyed stream for the bytes and a keyed checksum for the tag.
DefaultKeySize == 32
NonceSize == 12
TagSize == 16
RECURSIVE Sum(_)
Sum(bytes) == IF bytes = <<>> THEN 0 ELSE bytes[1] + Sum(Tail(bytes))
KeyStream(key, nonce, i) ==
    (key[((i - 1) % DefaultKeySize) + 1] + nonce[((i - 1) % NonceSize) + 1] + i)
        % 256
GcmTag(key, nonce, ct) ==
    [j \in 1..TagSize |->
        (key[j] + 3 * key[j + TagSize] + nonce[((j - 1) % NonceSize) + 1]
           + Sum(ct) + j * Len(ct)) % 256]

\* A Seal that appends to nothing: the nonce is not part of the result.
SealWithoutNonce(key, dst, nonce, plaintext) ==
    LET ct == [i \in 1..Len(plaintext) |->
                  (plaintext[i] + KeyStream(key, nonce, i)) % 256]
    IN ct \o GcmTag(key, nonce, ct)

\* aesGCM.Seal(dst, nonce, plaintext, nil): dst, the encrypted bytes, the tag
Seal(key, dst, nonce, plaintext) ==
    LET ct == [i \in 1..Len(plaintext) |->
                  (plaintext[i] + KeyStream(key, nonce, i)) % 256]
    IN dst \o ct \o GcmTag(key, nonce, ct)

\* An Open that does not compare the tag.
OpenUnverified(key, nonce, box) ==
    IF Len(box) < TagSize THEN [ok |-> FALSE, bytes |-> <<>>]
    ELSE LET ct == SubSeq(box, 1, Len(box) - TagSize)
         IN [ok |-> TRUE,
             bytes |-> [i \in 1..Len(ct) |->
                          (ct[i] + 256 - KeyStream(key, nonce, i)) % 256]]

\* aesGCM.Open(nil, nonce, ciphertext, nil)
Open(key, nonce, box) ==
    IF Len(box) < TagSize THEN [ok |-> FALSE, bytes |-> <<>>]
    ELSE LET ct == SubSeq(box, 1, Len(box) - TagSize)
             tag == SubSeq(box, Len(box) - TagSize + 1, Len(box))
         IN IF tag # GcmTag(key, nonce, ct)
            THEN [ok |-> FALSE, bytes |-> <<>>]
            ELSE [ok |-> TRUE,
                  bytes |-> [i \in 1..Len(ct) |->
                               (ct[i] + 256 - KeyStream(key, nonce, i)) % 256]]

\* NewTokenEncryptor (lines 20-40): the key of the n-th instance built.  A
\* key from the random source differs from every other key; when the source
\* fails the key is the bytes 0, 1, ..., 31.
RandomKey(n) == [i \in 1..DefaultKeySize |-> (101 + 37 * n + 11 * i) % 256]
FallbackKey == [i \in 1..DefaultKeySize |-> i - 1]
NewTokenEncryptor(n, randReadFails) ==
    IF randReadFails THEN FallbackKey ELSE RandomKey(n)

\* What io.ReadFull(rand.Reader, nonce) leaves in the nonce, or no nonce
\* when it fails.
RandomNonce(m) == [i \in 1..NonceSize |-> (17 * m + 29 * i) % 256]
NoNonce == <<>>

\* TokenEncryptor.Encrypt (lines 43-70)
TokenEncryptorEncrypt(key, nonce, plaintext) ==
    IF nonce = NoNonce
    THEN [ok |-> FALSE, val |-> <<>>, why |-> "failed to generate nonce"]
    ELSE [ok |-> TRUE,
          val |-> EncodeToString(Seal(key, nonce, nonce, plaintext)),
          why |-> ""]

\* TokenEncryptor.Decrypt (lines 73-109)
TokenEncryptorDecrypt(key, encryptedString) ==
    LET d == DecodeString(encryptedString)
    IN IF ~d.ok
       THEN [ok |-> FALSE, val |-> <<>>, why |-> "failed to decode base64"]
       ELSE IF Len(d.bytes) < NonceSize
       THEN [ok |-> FALSE, val |-> <<>>, why |-> "ciphertext too short"]
       ELSE LET o == Open(key, SubSeq(d.bytes, 1, NonceSize),
                          SubSeq(d.bytes, NonceSize + 1, Len(d.bytes)))
            IN IF ~o.ok
               THEN [ok |-> FALSE, val |-> <<>>, why |-> "failed to decrypt"]
               ELSE [ok |-> TRUE, val |-> o.bytes, why |-> ""]

\* An IsEncrypted that takes the empty string for plain text.
TokenEncryptorIsEncryptedNonEmpty(text) ==
    text # <<>> /\ DecodeString(text).ok

\* TokenEncryptor.IsEncrypted (lines 113-116)
TokenEncryptorIsEncrypted(text) == DecodeString(text).ok

\* ---------------------------------------------------------- sanitizers
\* A Go string of ASCII text: the sequence of its characters.
UpperCase ==
    <<"A", "B", "C", "D", "E", "F", "G", "H", "I", "J", "K", "L", 
     "M", "N", "O", "P", "Q", "R", "S", "T", "U", "V", "W", "X", "Y", "Z">>
LowerCase ==
    <<"a", "b", "c", "d", "e", "f", "g", "h", "i", "j", "k", "l", 
     "m", "n", "o", "p", "q", "r", "s", "t", "u", "v", "w", "x", "y", "z">>
Lower(c) ==
    IF \E i \in 1..26 : UpperCase[i] = c
    THEN LowerCase[CHOOSE i \in 1..26 : UpperCase[i] = c]
    ELSE c
Upper(c) ==
    IF \E i \in 1..26 : LowerCase[i] = c
    THEN UpperCase[CHOOSE i \in 1..26 : LowerCase[i] = c]
    ELSE c
\* strings.ToLower, strings.ToUpper
ToLower(str) == [i \in 1..Len(str) |-> Lower(str[i])]
ToUpper(str) == [i \in 1..Len(str) |-> Upper(str[i])]
\* substr occurs in str at the 0-based offset i
OccursAt(str, substr, i) ==
    /\ i + Len(substr) <= Len(str)
    /\ \A j \in 1..Len(substr) : str[i + j] = substr[j]
\* strings.Contains
Contains(str, substr) == \E i \in 0..Len(str) : OccursAt(str, substr, i)
\* strings.Index: the offset of the first occurrence, -1 if there is none
Index(str, substr) ==
    IF Contains(str, substr)
    THEN CHOOSE i \in 0..Len(str) :
             /\ OccursAt(str, substr, i)
             /\ \A k \in 0..(i - 1) : ~OccursAt(str, substr, k)
    ELSE -1

\* the characters cut after a pattern (lines 269 and 297)
ExtraChars == 30
Redacted == <<"[", "R", "E", "D", "A", "C", "T", "E", "D", "]">>
\* sensitivePatterns of sanitizeError (line 264)
ErrorPatterns ==
    <<<<"B", "e", "a", "r", "e", "r", " ">>,
      <<"a", "c", "c", "e", "s", "s", "J", "w", "t">>,
      <<"r", "e", "f", "r", "e", "s", "h", "J", "w", "t">>,
      <<"A", "u", "t", "h", "o", "r", "i", "z", "a", "t", "i", "o", "n">>>>
\* sensitivePatterns of sanitizeErrorBody (line 291)
BodyPatterns ==
    <<<<"e", "y", "J">>, <<"j", "w", "t">>,
      <<"b", "e", "a", "r", "e", "r">>,
      <<"a", "u", "t", "h">>, <<"t", "o", "k", "e", "n">>>>

\* The body of the loop over the patterns (lines 266-275, 294-303): one
\* pass for one pattern.
Mask(str, pattern) ==
    IF Contains(ToLower(str), ToLower(pattern))
    THEN LET start == Index(ToLower(str), ToLower(pattern))
             end == IF start + Len(pattern) + ExtraChars > Len(str)
                    THEN Len(str)
                    ELSE start + Len(pattern) + ExtraChars
         IN SubSeq(str, 1, start) \o Redacted \o SubSeq(str, end + 1, Len(str))
    ELSE str

RECURSIVE MaskAll(_, _, _)
MaskAll(str, patterns, k) ==
    IF k > Len(patterns) THEN str
    ELSE MaskAll(Mask(str, patterns[k]), patterns, k + 1)

\* sanitizeError (lines 257-282), on the message of a non-nil error: the
\* message of the error it returns.
sanitizeError(errMsg) == MaskAll(errMsg, ErrorPatterns, 1)

\* sanitizeErrorBody (lines 285-307)
sanitizeErrorBody(body) ==
    IF body = <<>> THEN <<>> ELSE MaskAll(body, BodyPatterns, 1)

\* ------------------------------------------- the transport used directly
\* Bodies a caller hands to DoRequest and EncodeJSONRequest.
RequestBodies == {NilBody, RecordBody, UnencodableBody}

\* c.DoRequest(ctx, "POST", url, body, headers)
TransportCall(p) ==
    /\ StartOpUpTo(p, MaxTransportCalls)
    /\ \E body \in RequestBodies :
          DoRequestCall(p, CreateRecord, body, Tok(AccessToken, 0), "tc_resp")
    /\ UNCHANGED <<tokenVars, lockVars, envVars, issued, gt, rt, pm, started,
                   doneClosed, panicked>>

\* The caller takes the result.
TransportReturn(p) ==
    /\ pc[p] = "tc_resp"
    /\ pc' = [pc EXCEPT ![p] = "idle"]
    /\ dr' = [dr EXCEPT ![p] = NoDoRequestFrame]
    /\ UNCHANGED <<tokenVars, lockVars, envVars, issued, gt, rt, pm, ctxDone,
                   ops, started, doneClosed, panicked>>

\* EncodeJSONRequest (lines 240-254); got is what the pool handed out.  On
\* success the buffer stays with the caller.
EncodeJSONRequest(body, got) ==
    LET e == Encode(Reset(got), body)
        r == [NoRequestBody EXCEPT
                !.body = body, !.held = TRUE, !.gets = 1,
                !.resets = IF Reset(got) = <<>> THEN 1 ELSE 0,
                !.buf = e.buf]
    IN IF e.err # NoError
       THEN [req |-> Put(r),
             err |-> Wrap("failed to encode request body", e.err)]
       ELSE [req |-> [r EXCEPT !.encodes = 1, !.bodyBytes = e.buf],
             err |-> NoError]

EncodeJSONRequestProbes ==
    {[fn |-> "EncodeJSONRequest", body |-> b, got |-> g, done |-> FALSE,
      out |-> [req |-> NoRequestBody, err |-> NoError]] :
        b \in RequestBodies, g \in PoolBuffers}

\* c.EncodeJSONRequest(body)
ProbeEncodeJSONRequest ==
    /\ probe.fn = "EncodeJSONRequest" /\ ~probe.done
    /\ probe' = [probe EXCEPT
                    !.done = TRUE,
                    !.out = EncodeJSONRequest(probe.body, probe.got)]
    /\ UNCHANGED <<tokenVars, lockVars, envVarsButProbe, issued, pc, gt, dr, rt, pm,
                   ctxDone, ops, started, doneClosed, panicked>>

\* NewHTTPClient alone: no TokenManager is built.
\* Values RETRY_BACKOFF can give the client: nothing validates it, so zero,
\* 100ms, the default, the largest duration and -1ns are all accepted.
TransportBackoffs ==
    {{}, Mul64(Bits(100), Millisecond), DefaultRetryBackoff, 0..62, 0..63}

InitTransport ==
    InitWith({<<"ct", "ct">>}, {FALSE}, TransportBackoffs,
             EncodeJSONRequestProbes, "idle")

\* ------------------------------------------- functions applied on their own
\* Statuses a response can carry into shouldRetry: sendRequest makes an
\* *HTTPError of every status outside [200, 300).
ProbeStatuses == {304, 400, 401, 404, 429, 499, 500, 503, 599, 600}

\* Errors handed to shouldRetry: a transport failure, a status error, and a
\* status error inside a fmt.Errorf layer.
ProbeErrors ==
    {NetError, Wrap("failed to post message", HTTPError(401))}
    \cup {HTTPError(s) : s \in ProbeStatuses}

ShouldRetryProbes ==
    {[fn |-> "shouldRetry", err |-> e, attempt |-> a, done |-> FALSE,
      out |-> FALSE] : e \in ProbeErrors, a \in 0..(MaxRetries + 1)}

\* c.shouldRetry(err, attempt)
ProbeShouldRetry ==
    /\ probe.fn = "shouldRetry" /\ ~probe.done
    /\ probe' = [probe EXCEPT !.done = TRUE,
                              !.out = shouldRetry(probe.err, probe.attempt)]
    /\ UNCHANGED <<tokenVars, lockVars, envVarsButProbe, issued, pc, gt, dr, rt, pm,
                   ctxDone, ops, started, doneClosed, panicked>>

\* Base backoffs of a retry policy: none, the 100ms and 20s of the tests,
\* the 5s a configuration has by default, and the largest duration.
ProbeBackoffs ==
    {{}, Mul64(Bits(100), Millisecond), Mul64(Bits(5), Second),
     Mul64(Bits(20), Second), 0..62}

CalculateBackoffProbes ==
    {[fn |-> "calculateBackoff", RetryBackoff |-> b, attempt |-> a,
      done |-> FALSE, out |-> {}] :
        b \in ProbeBackoffs, a \in 1..MaxConfiguredRetries}

\* c.calculateBackoff(attempt)
ProbeCalculateBackoff ==
    /\ probe.fn = "calculateBackoff" /\ ~probe.done
    /\ probe' = [probe EXCEPT
                    !.done = TRUE,
                    !.out = calculateBackoff(probe.RetryBackoff, probe.attempt)]
    /\ UNCHANGED <<tokenVars, lockVars, envVarsButProbe, issued, pc, gt, dr, rt, pm,
                   ctxDone, ops, started, doneClosed, panicked>>

\* Texts handed to a sanitizer: nothing, one pattern, or two patterns with
\* other characters between them, in the case of the pattern list or in
\* upper case.
Filler(n) == [i \in 1..n |-> "x"]
Gaps == {0, 1, MaxGap - 1, MaxGap}
TextsWith(patterns) ==
    LET pats == {patterns[i] : i \in 1..Len(patterns)}
        forms == pats \cup {ToUpper(pt) : pt \in pats}
    IN {<<>>} \cup forms
       \cup {pt \o Filler(n) \o qt : pt \in forms, qt \in pats, n \in Gaps}

SanitizeProbes ==
    {[fn |-> "sanitizeError", text |-> t, done |-> FALSE, out |-> <<>>] :
        t \in TextsWith(ErrorPatterns)}
    \cup {[fn |-> "sanitizeErrorBody", text |-> t, done |-> FALSE,
            out |-> <<>>] : t \in TextsWith(BodyPatterns)}

\* sanitizeError(err), sanitizeErrorBody(errorBody)
ProbeSanitize ==
    /\ probe.fn \in {"sanitizeError", "sanitizeErrorBody"} /\ ~probe.done
    /\ probe' = [probe EXCEPT
                    !.done = TRUE,
                    !.out = IF probe.fn = "sanitizeError"
                            THEN sanitizeError(probe.text)
                            ELSE sanitizeErrorBody(probe.text)]
    /\ UNCHANGED <<tokenVars, lockVars, envVarsButProbe, issued, pc, gt, dr, rt, pm,
                   ctxDone, ops, started, doneClosed, panicked>>

\* Credential strings handed to Encrypt: empty, ASCII of the lengths that
\* differ in padding, non-ASCII (UTF-8 of e acute), a NUL byte, bytes that
\* are no UTF-8, and text with a dot as a JWT has.
Plaintexts ==
    {<<>>, <<97>>, <<97, 98>>, <<97, 98, 99>>, <<195, 169>>, <<0>>,
     <<255, 254>>, <<101, 121, 74, 46, 97>>}
ProbeNonces == {RandomNonce(1), RandomNonce(2), NoNonce}
EncryptorKeys == {NewTokenEncryptor(1, f) : f \in BOOLEAN}

RoundTripProbes ==
    {[fn |-> "roundTrip", key |-> k, nonce |-> n, plaintext |-> t,
      done |-> FALSE,
      out |-> [enc |-> TokenEncryptorEncrypt(k, NoNonce, <<>>),
               dec |-> TokenEncryptorDecrypt(k, <<>>)]] :
        k \in EncryptorKeys, n \in ProbeNonces, t \in Plaintexts}

\* te.Encrypt(plaintext), then te.Decrypt of what it returned
ProbeRoundTrip ==
    /\ probe.fn = "roundTrip" /\ ~probe.done
    /\ LET enc == TokenEncryptorEncrypt(probe.key, probe.nonce, probe.plaintext)
       IN probe' = [probe EXCEPT
                       !.done = TRUE,
                       !.out = [enc |-> enc,
                                dec |-> TokenEncryptorDecrypt(probe.key, enc.val)]]
    /\ UNCHANGED <<tokenVars, lockVars, envVarsButProbe, issued, pc, gt, dr, rt, pm,
                   ctxDone, ops, started, doneClosed, panicked>>

\* Two TokenEncryptor instances built one after the other; for each, rand.Read
\* delivers the key or fails.
TwoInstanceProbes ==
    {[fn |-> "twoInstances", randReadFails |-> <<f1, f2>>,
      nonce |-> RandomNonce(1), plaintext |-> t, done |-> FALSE,
      out |-> [enc |-> TokenEncryptorEncrypt(FallbackKey, NoNonce, <<>>),
               dec |-> TokenEncryptorDecrypt(FallbackKey, <<>>)]] :
        f1 \in BOOLEAN, f2 \in BOOLEAN, t \in Plaintexts}

\* a := NewTokenEncryptor(); b := NewTokenEncryptor(); a.Encrypt(plaintext),
\* then b.Decrypt of what it returned
ProbeTwoInstances ==
    /\ probe.fn = "twoInstances" /\ ~probe.done
    /\ LET a == NewTokenEncryptor(1, probe.randReadFails[1])
           b == NewTokenEncryptor(2, probe.randReadFails[2])
           enc == TokenEncryptorEncrypt(a, probe.nonce, probe.plaintext)
       IN probe' = [probe EXCEPT
                       !.done = TRUE,
                       !.out = [enc |-> enc,
                                dec |-> TokenEncryptorDecrypt(b, enc.val)]]
    /\ UNCHANGED <<tokenVars, lockVars, envVarsButProbe, issued, pc, gt, dr, rt, pm,
                   ctxDone, ops, started, doneClosed, panicked>>

\* Strings handed to Decrypt and IsEncrypted, each with what it is:
\*   "notBase64"     text the decoder rejects (a dot, a blank, a length that
\*                   is no multiple of four, padding out of place, non-ASCII)
\*   "short"         decodable to fewer bytes than a nonce: the empty
\*                   string, "QUJD", the first 11 bytes of a sealed message
\*   "notAuthentic"  decodable to a nonce and more, but no message sealed
\*                   under the key: a bare nonce, plain text of 16
\*                   characters, a message cut short, a message with one
\*                   byte changed, a message of another key
\*   "own"           an output of Encrypt under the key
Tamper(bytes, i) == [bytes EXCEPT ![i] = (@ + 1) % 256]
SealedBy(key) == Seal(key, RandomNonce(1), RandomNonce(1), <<97, 98, 99>>)
EncryptedStrings(key) ==
    {[str |-> t, is |-> "notBase64"] :
        t \in {<<97, 46, 98, 99>>, <<97, 98, 99>>, <<97, 61, 61, 61>>,
               <<97, 98, 61, 99>>, <<32, 32, 32, 32>>,
               <<101, 121, 74, 46, 97>>, <<195, 169, 97, 98>>}}
    \cup {[str |-> t, is |-> "short"] :
            t \in {<<>>, EncodeToString(<<65, 66, 67>>),
                   EncodeToString(SubSeq(SealedBy(key), 1, NonceSize - 1))}}
    \cup {[str |-> EncodeToString(b), is |-> "notAuthentic"] :
            b \in {RandomNonce(1),
                   SubSeq(SealedBy(key), 1, Len(SealedBy(key)) - 1),
                   Tamper(SealedBy(key), 1),
                   Tamper(SealedBy(key), NonceSize + 1),
                   Tamper(SealedBy(key), Len(SealedBy(key))),
                   SealedBy(RandomKey(2))}}
    \cup {[str |-> [i \in 1..16 |-> 97], is |-> "notAuthentic"]}
    \cup {[str |-> TokenEncryptorEncrypt(key, n, t).val, is |-> "own"] :
            n \in ProbeNonces \ {NoNonce}, t \in Plaintexts}

DecryptProbes ==
    {[fn |-> "Decrypt", key |-> k, str |-> e.str, is |-> e.is,
      done |-> FALSE, out |-> TokenEncryptorDecrypt(k, <<>>)] :
        k \in EncryptorKeys, e \in EncryptedStrings(RandomKey(1))
                                    \cup EncryptedStrings(FallbackKey)}

\* te.Decrypt(encryptedString)
ProbeDecrypt ==
    /\ probe.fn = "Decrypt" /\ ~probe.done
    /\ probe' = [probe EXCEPT
                    !.done = TRUE,
                    !.out = TokenEncryptorDecrypt(probe.key, probe.str)]
    /\ UNCHANGED <<tokenVars, lockVars, envVarsButProbe, issued, pc, gt, dr, rt, pm,
                   ctxDone, ops, started, doneClosed, panicked>>

\* Text handed to IsEncrypted: the strings above, and text that is base64 by
\* coincidence or only nearly ("abcd", "ab==", "abc=", "ab" newline "cd",
\* "ab=" newline "=", "=abc", "a=bc", "====", "ab=c", "abcde").
IsEncryptedTexts ==
    EncryptedStrings(RandomKey(1)) \cup EncryptedStrings(FallbackKey)
    \cup {[str |-> t, is |-> "text"] :
            t \in {<<97, 98, 99, 100>>, <<97, 98, 61, 61>>,
                   <<97, 98, 99, 61>>, <<97, 98, 10, 99, 100>>,
                   <<97, 98, 61, 10, 61>>, <<61, 97, 98, 99>>,
                   <<97, 61, 98, 99>>, <<61, 61, 61, 61>>,
                   <<97, 98, 61, 99>>, <<97, 98, 99, 100, 101>>}}

IsEncryptedProbes ==
    {[fn |-> "IsEncrypted", str |-> e.str, is |-> e.is,
      done |-> FALSE, out |-> FALSE] : e \in IsEncryptedTexts}

\* te.IsEncrypted(text)
ProbeIsEncrypted ==
    /\ probe.fn = "IsEncrypted" /\ ~probe.done
    /\ probe' = [probe EXCEPT !.done = TRUE,
                              !.out = TokenEncryptorIsEncrypted(probe.str)]
    /\ UNCHANGED <<tokenVars, lockVars, envVarsButProbe, issued, pc, gt, dr, rt, pm,
                   ctxDone, ops, started, doneClosed, panicked>>

InitPure ==
    InitFrom({<<"ct", "ct">>}, {FALSE},
             ShouldRetryProbes \cup CalculateBackoffProbes
                 \cup SanitizeProbes \cup RoundTripProbes
                 \cup TwoInstanceProbes \cup DecryptProbes
                 \cup IsEncryptedProbes, "ntm_encrypt")

\* ------------------------------------------------------------------ Next
\* The steps inside GetToken, DoRequest and RefreshToken.
TokenStep(p) ==
    \/ GetTokenRLock(p) \/ GetTokenCheck(p) \/ GetTokenStoreRLock(p)
    \/ GetTokenStoreRead(p) \/ GetTokenLock(p) \/ GetTokenFill(p)
    \/ DoRequestSend(p) \/ DoRequestBackoff(p)
    \/ RefreshTokenRequest(p) \/ RefreshTokenDecode(p)
    \/ RefreshTokenCacheLock(p) \/ RefreshTokenCacheUpdate(p)
    \/ RefreshTokenEncrypt(p) \/ RefreshTokenStoreUpdate(p)

\* The steps inside PostMessage.
PostStep(p) ==
    \/ PostMessageSend(p) \/ PostMessageResult(p) \/ PostMessageRefreshed(p)
    \/ PostMessageRetry(p) \/ PostMessageRetryResult(p)

\* "main" and the background cycle; "main" refreshes, reads and shuts down.
Next ==
    \/ \E p \in {"main", "bg"} : TokenStep(p)
    \/ NewTokenManagerEncrypt("main")
    \/ NewTokenManagerStart("main")
    \/ BackgroundTick("bg")
    \/ BackgroundLog("bg")
    \/ BackgroundStop("bg")
    \/ \E k \in TokenTypes : CallGetToken("main", k)
    \/ CallRefreshToken("main")
    \/ Shutdown("main")

\* "main" alone: construction, then posts, refreshes and reads.
NextPost ==
    \/ TokenStep("main")
    \/ PostStep("main")
    \/ NewTokenManagerEncrypt("main")
    \/ NewTokenManagerStart("main")
    \/ \E k \in TokenTypes : CallGetToken("main", k)
    \/ CallRefreshToken("main")
    \/ CallPostMessage("main")

\* "main" and a second client goroutine reading credentials.
NextReaders ==
    \/ \E p \in {"main", "r1"} : TokenStep(p)
    \/ NewTokenManagerEncrypt("main")
    \/ NewTokenManagerStart("main")
    \/ \E p \in {"main", "r1"}, k \in TokenTypes : CallGetToken(p, k)
    \/ CallRefreshToken("main")

\* The background cycle after construction, beside Shutdown calls of "main".
NextCycle ==
    \/ \E p \in {"main", "bg"} : TokenStep(p)
    \/ NewTokenManagerEncrypt("main")
    \/ NewTokenManagerStart("main")
    \/ BackgroundTickUpTo("bg", MaxCycleTicks)
    \/ BackgroundLog("bg")
    \/ BackgroundStop("bg")
    \/ ShutdownUpTo("main", MaxShutdowns)

Spec == Init /\ [][Next]_vars
SpecCycle == Init /\ [][NextCycle]_vars
\* The scheduler runs every goroutine that can take a step; the select of
\* the cycle chooses at random among the cases that are ready, so a case
\* that is ready again and again is taken in the end.
FairCycle ==
    /\ WF_vars(TokenStep("bg"))
    /\ WF_vars(BackgroundLog("bg"))
    /\ SF_vars(BackgroundStop("bg"))
SpecCycleFair == Init /\ [][NextCycle]_vars /\ FairCycle
SpecPost == InitSeq /\ [][NextPost]_vars
SpecReaders == Init /\ [][NextReaders]_vars

\* Three goroutines: "main" refreshes, the background cycle refreshes and
\* "r1" reads; the seeds were encrypted beforehand, so the cache starts
\* empty and readers take the miss path.
InitTrio == InitFrom({<<"ct", "ct">>}, {FALSE}, {NoProbe}, "ntm_encrypt")
NextTrio ==
    \/ \E p \in Procs : TokenStep(p)
    \/ NewTokenManagerEncrypt("main")
    \/ NewTokenManagerStart("main")
    \/ BackgroundTick("bg")
    \/ BackgroundLog("bg")
    \/ \E k \in TokenTypes : CallGetToken("r1", k)
    \/ CallRefreshToken("main")
SpecTrio == InitTrio /\ [][NextTrio]_vars

\* Every user of the two locks: the constructor and the background cycle
\* refresh, "r1" reads, "main" shuts down.
NextLocks ==
    \/ \E p \in Procs : TokenStep(p)
    \/ NewTokenManagerEncrypt("main")
    \/ NewTokenManagerStart("main")
    \/ BackgroundTick("bg")
    \/ BackgroundLog("bg")
    \/ BackgroundStop("bg")
    \/ \E k \in TokenTypes : CallGetToken("r1", k)
    \/ Shutdown("main")
\* The scheduler runs every goroutine that can take a step, and a network
\* call returns.
FairLocks ==
    /\ \A p \in Procs : WF_vars(TokenStep(p))
    /\ WF_vars(BackgroundLog("bg"))
SpecLocks == InitTrio /\ [][NextLocks]_vars /\ FairLocks

\* main constructs the repository and waits in its loop for a signal while
\* the background cycle runs (the post ticker does not fire before the
\* signal arrives).
NextMain ==
    \/ \E p \in {"main", "bg"} : TokenStep(p)
    \/ NewTokenManagerEncrypt("main")
    \/ NewTokenManagerStart("main")
    \/ BackgroundTickUpTo("bg", MaxCycleTicks)
    \/ BackgroundLog("bg")
    \/ MainSignal("main")
\* The scheduler runs every goroutine that can take a step; whether a
\* signal arrives is up to the environment.
FairMain ==
    /\ \A p \in {"main", "bg"} : WF_vars(TokenStep(p))
    /\ WF_vars(NewTokenManagerEncrypt("main"))
    /\ WF_vars(NewTokenManagerStart("main"))
    /\ WF_vars(BackgroundLog("bg"))
SpecMain == Init /\ [][NextMain]_vars /\ FairMain

\* A client of the transport: DoRequest and EncodeJSONRequest calls.
NextTransport ==
    \/ TransportCall("main")
    \/ DoRequestSend("main")
    \/ DoRequestBackoff("main")
    \/ TransportReturn("main")
    \/ ProbeEncodeJSONRequest
SpecTransport == InitTransport /\ [][NextTransport]_vars

NextPure ==
    \/ ProbeShouldRetry
    \/ ProbeCalculateBackoff
    \/ ProbeSanitize
    \/ ProbeRoundTrip
    \/ ProbeTwoInstances
    \/ ProbeDecrypt
    \/ ProbeIsEncrypted
SpecPure == InitPure /\ [][NextPure]_vars

\* ------------------------------------------------- properties: PostMessage
\* A status error carrying 401, however it is wrapped.
Is401(err) == err.type = "HTTPError" /\ err.status = 401

\* A failure class DoRequest retries while its budget lasts: everything but
\* a 4xx status other than 429 and a cancellation during the backoff.
Retryable(err) ==
    /\ err # NoError
    /\ err.type # "ctx"
    /\ ~(err.type = "HTTPError" /\ err.status >= 400 /\ err.status < 500
         /\ err.status # 429)

\* A PostMessage call that has returned after at least one createRecord
\* execution.
Posted(p) == ~pm[p].active /\ Len(pm[p].log) >= 1

\* The first execution ended with 401, the refresh returned nil and the last
\* DoRequest made was a createRecord execution that succeeded.
RefreshedAndPosted(p) ==
    /\ Posted(p)
    /\ Is401(pm[p].log[1].err)
    /\ pm[p].refreshErr = NoError
    /\ Len(pm[p].log) > 1
    /\ pm[p].log[Len(pm[p].log)].url = CreateRecord
    /\ pm[p].log[Len(pm[p].log)].err = NoError

\* C1: when the first createRecord execution of PostMessage fails with 401
\* and the refresh and the second createRecord execution succeed, PostMessage
\* has made exactly one RefreshToken call and exactly two createRecord
\* executions and returns nil.
C1_OneRefreshTwoExecutions ==
    \A p \in Procs :
        RefreshedAndPosted(p) =>
            /\ pm[p].refreshes = 1
            /\ pm[p].execs = 2
            /\ pm[p].err = NoError

\* A returned PostMessage whose log is: createRecord 401, refreshSession ok,
\* createRecord ok.
C1_Witness ==
    \E p \in Procs :
        /\ RefreshedAndPosted(p)
        /\ Len(pm[p].log) = 3
        /\ pm[p].log[2].url = RefreshSession
        /\ pm[p].log[2].err = NoError
        /\ pm[p].refreshes = 1
        /\ pm[p].execs = 2
        /\ pm[p].err = NoError

\* C2: when the first createRecord execution fails with anything other than
\* a 401 status error, PostMessage returns that failure (wrapped with its own
\* message) without a RefreshToken call and without a second execution.
C2_OtherFailureSurfaced ==
    \A p \in Procs :
        (/\ Posted(p)
         /\ pm[p].log[1].err # NoError
         /\ ~Is401(pm[p].log[1].err)) =>
            /\ pm[p].refreshes = 0
            /\ pm[p].execs = 1
            /\ Len(pm[p].log) = 1
            /\ pm[p].err = Wrap("failed to post message", pm[p].log[1].err)

\* A returned PostMessage whose only execution used up its retries on 500.
C2_Witness ==
    \E p \in Procs :
        /\ Posted(p)
        /\ pm[p].log[1].err = HTTPError(500)
        /\ pm[p].log[1].sends = MaxRetries + 1
        /\ pm[p].refreshes = 0
        /\ pm[p].execs = 1
        /\ pm[p].err # NoError

\* C3: every DoRequest call made on behalf of one PostMessage (the first
\* execution, the refresh, the execution after the refresh) sends at most
\* MaxRetries+1 requests and, when it ends in a retryable failure, has sent
\* exactly MaxRetries+1: none of them is charged for the attempts of another.
C3_OwnRetryBudget ==
    \A p \in Procs :
        \A i \in 1..Len(pm[p].log) :
            /\ pm[p].log[i].sends >= 1
            /\ pm[p].log[i].sends <= MaxRetries + 1
            /\ Retryable(pm[p].log[i].err) => pm[p].log[i].sends = MaxRetries + 1

\* A PostMessage whose first execution, refresh and second execution each
\* sent MaxRetries+1 requests.
C3_Witness ==
    \E p \in Procs :
        /\ Len(pm[p].log) = 3
        /\ Is401(pm[p].log[1].err)
        /\ \A i \in 1..3 : pm[p].log[i].sends = MaxRetries + 1
        /\ pm[p].log[2].err = NoError
        /\ pm[p].log[3].err = NoError

\* ------------------------------------------- properties: TokenManager
FullPair(resp) ==
    resp.parsed /\ resp.accessJwt # EmptyString /\ resp.refreshJwt # EmptyString

\* A RefreshToken call of p has returned nil, its response carried a full
\* pair, and no other RefreshToken call ran while it did or started since.
RefreshedAlone(p) ==
    /\ ~rt[p].active
    /\ rt[p].wroteStore
    /\ rt[p].err = NoError
    /\ rt[p].solo
    /\ FullPair(rt[p].resp)

\* C4: after a RefreshToken call that succeeded with the pair (A2, R2), no
\* other refresh being in progress, GetToken(access) returns A2 and
\* GetToken(refresh) returns R2.
C4_RefreshedPairReturned ==
    \A p \in Procs :
        RefreshedAlone(p) =>
            /\ GetTokenNow(AccessToken) = [ok |-> TRUE, val |-> rt[p].resp.accessJwt]
            /\ GetTokenNow(RefreshToken) = [ok |-> TRUE, val |-> rt[p].resp.refreshJwt]

\* The background cycle has refreshed alone to a pair that replaced an
\* earlier one, and GetToken returns it.
C4_Witness ==
    /\ RefreshedAlone("bg")
    /\ rt["bg"].resp.accessJwt = Tok(AccessToken, 2)
    /\ GetTokenNow(AccessToken).val = Tok(AccessToken, 2)
    /\ GetTokenNow(RefreshToken).val = Tok(RefreshToken, 2)

\* C5 as stated: a RefreshToken call whose request failed or whose response
\* could not be parsed has changed neither the cache nor the store.
C5_NothingChanged ==
    \A p \in Procs :
        rt[p].cause # "" =>
            ~rt[p].filled /\ ~rt[p].wroteCache /\ ~rt[p].wroteStore

\* C5: a RefreshToken call whose request failed or whose response could not
\* be parsed returns an error, has not written the store and has written no
\* value of a response into the cache; the one change it can have made is
\* that its own GetToken(refresh) filled an empty cached refresh credential
\* with the decryption of the stored one.
C5_FailedRefreshWritesNoResponse ==
    /\ [](\A p \in Procs :
            rt[p].cause # "" =>
                /\ ~rt[p].active
                /\ rt[p].err # NoError
                /\ ~rt[p].wroteCache
                /\ ~rt[p].wroteStore
                /\ pc[p] \notin {"rt_clock", "rt_cache", "rt_enc", "rt_store"})
    /\ [][\A p \in Procs :
            (rt'[p].filled /\ ~rt[p].filled) =>
                /\ cachedRefreshToken = EmptyString
                /\ cachedRefreshToken' = Decrypt(gt[p].enc).val
                /\ cachedAccessToken' = cachedAccessToken
                /\ cfgAccessJWT' = cfgAccessJWT
                /\ cfgRefreshJWT' = cfgRefreshJWT]_vars

\* A RefreshToken call that got an unparseable answer has returned its error
\* after its GetToken(refresh) filled the cache.
C5_Witness ==
    \E p \in Procs :
        /\ rt[p].cause = "parse"
        /\ ~rt[p].active
        /\ rt[p].err # NoError
        /\ rt[p].filled
        /\ cachedRefreshToken = Tok(RefreshToken, 0)

\* C6 as stated: whenever no RefreshToken call is between its cache update
\* and its store update, each non-empty cached credential is the decryption
\* of the stored one.
C6_CacheDecryptsStore ==
    (\A p \in Procs : pc[p] \notin {"rt_enc", "rt_store"}) =>
        \A k \in TokenTypes :
            Cached(k) # EmptyString =>
                Decrypt(Stored(k)) = [ok |-> TRUE, val |-> Cached(k), why |-> ""]

\* Two credentials of different sources.
Mixed(a, b) == a # EmptyString /\ b # EmptyString /\ a.gen # b.gen

\* C7 as stated: the two cached credentials come from one source, and so do
\* the two stored ones.
C7_PairFromOneSource ==
    /\ ~Mixed(cachedAccessToken, cachedRefreshToken)
    /\ ~Mixed(cfgAccessJWT.txt, cfgRefreshJWT.txt)

C9_CacheHitReturns ==
    [][\A p \in Procs :
          (pc[p] = "gt_check" /\ pc'[p] # "gt_check"
           /\ Cached(gt[p].kind) # EmptyString) =>
              /\ pc'[p] = gt[p].ret
              /\ gt'[p].val = Cached(gt[p].kind)
              /\ gt'[p].err = NoError
              /\ ~gt'[p].decrypted /\ ~gt'[p].sread /\ ~gt'[p].wlock
              /\ cachedTokensMutex'.w # p]_vars

\* A call has returned a cached credential of a refresh on its first check.
C9_Witness ==
    \E p \in Procs :
        /\ gt[p].hit
        /\ pc[p] = gt[p].ret
        /\ gt[p].val.gen > 0
        /\ ~gt[p].decrypted /\ ~gt[p].sread /\ ~gt[p].wlock

\* C10 as stated: when the eager refresh has failed, GetToken returns the
\* seeds once NewTokenManager has returned.
C10_SeedsUsable ==
    (/\ pc["main"] = "idle" /\ ops["main"] = 0
     /\ ~rt["main"].active /\ rt["main"].err # NoError) =>
        \A k \in TokenTypes : GetTokenNow(k) = [ok |-> TRUE, val |-> Tok(k, 0)]

\* ------------------------------------------- properties: NewTokenManager
\* C11: NewTokenManager encrypts the seeds, then makes exactly one eager
\* RefreshToken call, and starts the background cycle only when that call
\* has returned, whatever it returned; until then the background cycle does
\* nothing, so no background refresh runs beside the eager one.
C11_ConstructionOrder ==
    /\ [](~started =>
            /\ pc["bg"] = "off" /\ ~rt["bg"].active /\ ops["bg"] = 0
            /\ pc["main"] # "idle" /\ ops["main"] = 0)
    /\ [](started => pc["main"] \notin {"ntm_encrypt", "ntm_refreshed"})
    /\ [][(pc["main"] = "ntm_encrypt" /\ pc'["main"] # "ntm_encrypt") =>
            /\ IsEncrypted(cfgAccessJWT')
            /\ rt'["main"].active /\ rt'["main"].ret = "ntm_refreshed"
            /\ ~started']_vars
    /\ [][(~started /\ rt'["main"].active /\ ~rt["main"].active) =>
            pc["main"] = "ntm_encrypt"]_vars
    /\ [][(started' /\ ~started) =>
            /\ pc["main"] = "ntm_refreshed" /\ ~rt["main"].active
            /\ pc'["main"] = "idle" /\ pc'["bg"] = "bg_wait"]_vars

\* The manager has been returned and the background cycle waits for its
\* first tick although the eager refresh failed.
C11_Witness ==
    /\ started
    /\ pc["main"] = "idle" /\ pc["bg"] = "bg_wait"
    /\ ops["main"] = 0 /\ ops["bg"] = 0
    /\ ~rt["main"].active /\ rt["main"].err # NoError

\* ------------------------------------ properties: backgroundTokenRefresh
\* The labels of a goroutine that is inside a RefreshToken call.
InRefresh(p) ==
    pc[p] \in {"gt_rlock", "gt_check", "gt_srlock", "gt_sread", "gt_lock",
               "gt_fill", "rt_got", "dr_send", "dr_backoff", "rt_resp",
               "rt_clock", "rt_cache", "rt_enc", "rt_store"}

\* C12: every tick the background cycle receives starts one RefreshToken
\* call (the cycle is waiting, or inside the call of its latest tick, or
\* logging that call's result), only Shutdown ends the cycle, and whatever a
\* refresh returned the cycle waits again and takes the next tick.
C12_CycleSurvivesFailure ==
    /\ pc["bg"] \in {"off", "bg_wait", "bg_log", "bg_exit"} \/ InRefresh("bg")
    /\ InRefresh("bg") =>
          rt["bg"].active /\ rt["bg"].ret = "bg_log" /\ ops["bg"] >= 1
    /\ pc["bg"] = "bg_log" =>
          ~rt["bg"].active /\ rt["bg"].ret = "bg_log" /\ ops["bg"] >= 1
          /\ (~panicked => ENABLED BackgroundLog("bg"))
    /\ pc["bg"] = "bg_wait" => ~rt["bg"].active
    /\ pc["bg"] = "bg_exit" => doneClosed
    /\ (pc["bg"] = "bg_wait" /\ ops["bg"] < MaxCycleTicks /\ ~panicked) =>
          ENABLED BackgroundTickUpTo("bg", MaxCycleTicks)

\* No pair was ever issued, so the refresh of the first tick failed; the
\* refresh of the second tick is running.
C12_Witness ==
    /\ ~doneClosed
    /\ issued = 0
    /\ ops["bg"] = 2
    /\ rt["bg"].active
    /\ pc["bg"] = "dr_send"

\* C13 as stated: once Shutdown has been called the background cycle starts
\* no RefreshToken call and none of its steps changes the cache or the store.
C13_QuietAfterShutdown ==
    [][doneClosed =>
          /\ ~(rt'["bg"].active /\ ~rt["bg"].active)
          /\ pc'["bg"] # pc["bg"] => UNCHANGED tokenVars]_vars

\* C14: the first Shutdown call closes tm.Done, which lets the waiting
\* background cycle take its Done case; a second Shutdown call on the same
\* manager (BlueskyRepository.Shutdown calls it first) closes the closed
\* channel, which is a panic and no no-op.
C14_SingleUseShutdown ==
    /\ ops["main"] = 0 => ~doneClosed /\ ~panicked
    /\ ops["main"] = 1 => doneClosed /\ ~panicked
    /\ ops["main"] >= 2 => doneClosed /\ panicked
    /\ (doneClosed /\ ~panicked /\ pc["bg"] = "bg_wait") =>
          ENABLED BackgroundStop("bg")

\* The cycle has ended after the first call and the second call panicked.
C14_Witness ==
    /\ ops["main"] = 2
    /\ panicked
    /\ pc["bg"] = "bg_exit"

\* -------------------------------------------------- properties: DoRequest
\* The DoRequest call of p has returned and its caller has not yet taken
\* the result.
Returned(p) == dr[p].ret # "idle" /\ pc[p] = dr[p].ret

\* A status error of a 4xx status other than 429.
ClientError(err) ==
    /\ err.type = "HTTPError"
    /\ err.status \in 400..499
    /\ err.status # 429

C17_ClientErrorEndsCall ==
    \A p \in Procs :
        ClientError(dr[p].last) =>
            /\ Returned(p)
            /\ AsHTTPError(dr[p].err)
            /\ dr[p].err.status = dr[p].last.status
            /\ dr[p].sends = dr[p].attempt + 1

\* The first attempt of a call answered 401 while retries were left.
C17_Witness ==
    \E p \in Procs :
        /\ Returned(p)
        /\ dr[p].err = HTTPError(401)
        /\ dr[p].sends = 1
        /\ dr[p].attempt < MaxRetries

\* C21: a context that ends while DoRequest waits in a backoff ends the
\* call in that step: DoRequest returns the cancellation error ("context
\* cancelled during backoff" around ctx.Err()) and has sent nothing more;
\* an attempt after a backoff is only ever sent under a live context, and a
\* call that returned the cancellation error has used at most MaxRetries of
\* its MaxRetries+1 requests.
C21_CancelledBackoffAborts ==
    /\ [](\A p \in Procs :
            /\ pc[p] = "dr_send" /\ dr[p].attempt > 0 => ~ctxDone[p]
            /\ Returned(p) /\ dr[p].err.type = "ctx" =>
                  /\ ctxDone[p]
                  /\ dr[p].err.chain = <<"context cancelled during backoff">>
                  /\ dr[p].sends = dr[p].attempt
                  /\ dr[p].sends <= MaxRetries)
    /\ [][\A p \in Procs :
            pc[p] = "dr_backoff" /\ pc'[p] # pc[p] /\ ctxDone'[p] =>
                /\ pc'[p] = dr[p].ret
                /\ dr'[p].err = CtxError
                /\ dr'[p].sends = dr[p].sends]_vars

\* A call was cancelled in the backoff after its first request.
C21_Witness ==
    \E p \in Procs :
        /\ Returned(p)
        /\ dr[p].err = CtxError
        /\ dr[p].sends = 1

\* The bytes the encoder writes for a body into an empty buffer.
Serialized(body) == Encode(<<>>, body).buf

\* C22: a DoRequest call with a body serializes it once, before the first
\* attempt; the buffer holds the whole serialized body whenever an attempt
\* is about to be sent, whatever the transport has read of it in the attempt
\* before; and every attempt carries the same bytes as the first.
C22_BodyReplayedUnchanged ==
    \A p \in Procs :
        LET r == dr[p].req
        IN /\ r.encodes <= 1
           /\ dr[p].sends >= 1 /\ r.body # NilBody => r.encodes = 1
           /\ r.gets = 1 => Len(r.carried) = dr[p].sends
           /\ pc[p] = "dr_send" /\ r.held => r.buf = r.bodyBytes
           /\ \A i \in 1..Len(r.carried) :
                 /\ r.carried[i] = r.carried[1]
                 /\ r.carried[i] = r.bodyBytes

\* A call with the record as body has made all its attempts.
C22_Witness ==
    \E p \in Procs :
        /\ Returned(p)
        /\ dr[p].req.body = RecordBody
        /\ Len(dr[p].req.carried) = MaxRetries + 1
        /\ dr[p].req.carried[MaxRetries + 1] = Serialized(RecordBody)

\* C23: a DoRequest call with a body takes one buffer and resets it before
\* the encoder writes to it, so no attempt carries bytes of a previous user;
\* it holds the buffer while it runs and has put it back exactly once when
\* it has returned, whichever way it returned (success, encode failure,
\* non-retryable failure, exhaustion, cancellation); a call without body
\* takes none.  EncodeJSONRequest resets the buffer it takes, puts it back
\* exactly once when encoding fails and hands it to the caller otherwise.
C23_BufferResetAndPutOnce ==
    /\ \A p \in Procs :
          LET r == dr[p].req
          IN /\ r.gets = (IF r.body = NilBody THEN 0 ELSE 1)
             /\ r.resets = r.gets
             /\ Returned(p) => r.puts = r.gets /\ ~r.held
             /\ pc[p] \in {"dr_send", "dr_backoff"} =>
                   r.puts = 0 /\ (r.held <=> r.gets = 1)
             /\ \A i \in 1..Len(r.carried) : r.carried[i] = Serialized(r.body)
    /\ probe.fn = "EncodeJSONRequest" /\ probe.done =>
          LET r == probe.out.req
          IN /\ r.gets = 1 /\ r.resets = 1
             /\ probe.out.err # NoError => r.puts = 1 /\ ~r.held
             /\ probe.out.err = NoError =>
                   r.puts = 0 /\ r.held /\ r.buf = Serialized(probe.body)

\* A call with a body was cancelled in a backoff and has given its buffer
\* back, and an EncodeJSONRequest call has failed to encode.
C23_Witness ==
    /\ \E p \in Procs :
          /\ Returned(p)
          /\ dr[p].err = CtxError
          /\ dr[p].req.gets = 1
          /\ dr[p].req.puts = 1
    /\ probe.fn = "EncodeJSONRequest" /\ probe.done
    /\ probe.out.err # NoError

\* C18 as stated: an attempt that is answered with a 2xx or a 3xx status is
\* no failure.
C18_RedirectStatusIsSuccess ==
    \A p \in Procs :
        ~(dr[p].last.type = "HTTPError" /\ dr[p].last.status \in 200..399)

\* C19 as stated: a call whose last permitted attempt failed returns an
\* error that carries the annotation of line 142 around the final failure.
C19_ExhaustionAnnotated ==
    \A p \in Procs :
        Returned(p) /\ dr[p].sends = MaxRetries + 1 /\ dr[p].err # NoError =>
            /\ Len(dr[p].err.chain) >= 1
            /\ dr[p].err.chain[1] = "request failed after attempts"

\* ------------------------------------------------ properties: shouldRetry
ShouldRetryApplied == probe.fn = "shouldRetry" /\ probe.done

CalculateBackoffApplied == probe.fn = "calculateBackoff" /\ probe.done

\* min(base * 2^(attempt-1), 30s) of the naturals, no bit lost.
ExactBackoff(RetryBackoff, attempt) ==
    LET product == {i + attempt - 1 : i \in RetryBackoff}
    IN IF GreaterNat(product, MaxBackoffDuration)
       THEN MaxBackoffDuration
       ELSE product

\* C20 as stated: for every attempt from 1 to the configured MaxRetries and
\* every non-negative base, calculateBackoff(attempt) is
\* min(base * 2^(attempt-1), 30s), not negative, not above the ceiling and
\* not below the backoff of the attempt before.
C20_BackoffCappedAndMonotone ==
    CalculateBackoffApplied =>
        /\ probe.out = ExactBackoff(probe.RetryBackoff, probe.attempt)
        /\ ~Negative(probe.out)
        /\ ~Greater64(probe.out, MaxBackoffDuration)
        /\ probe.attempt > 1 =>
              ~Greater64(calculateBackoff(probe.RetryBackoff, probe.attempt - 1),
                         probe.out)

\* ------------------------------------------------ properties: sanitizers
SanitizeApplied ==
    probe.fn \in {"sanitizeError", "sanitizeErrorBody"} /\ probe.done

PatternsOf(fn) == IF fn = "sanitizeError" THEN ErrorPatterns ELSE BodyPatterns

\* C24 as stated: the output of sanitizeError and of sanitizeErrorBody holds
\* no occurrence, in any case, of a pattern of the function's list, however
\* often the pattern occurs in the input.
C24_NoPatternLeft ==
    SanitizeApplied =>
        \A k \in 1..Len(PatternsOf(probe.fn)) :
            ~Contains(ToLower(probe.out), ToLower(PatternsOf(probe.fn)[k]))

\* -------------------------------------------- properties: TokenEncryptor
RoundTripApplied == probe.fn = "roundTrip" /\ probe.done

\* C25: for every string, the empty one and non-ASCII ones included,
\* Decrypt on the same TokenEncryptor returns, without error, the string
\* that Encrypt was given, whenever Encrypt returned a ciphertext; Encrypt
\* returns one unless the random source fails to deliver the nonce.
C25_DecryptInvertsEncrypt ==
    RoundTripApplied =>
        /\ probe.out.enc.ok <=> probe.nonce # NoNonce
        /\ probe.out.enc.ok =>
              /\ probe.out.dec.ok
              /\ probe.out.dec.val = probe.plaintext

\* The round trip of a non-ASCII string.
C25_Witness ==
    /\ RoundTripApplied
    /\ probe.plaintext = <<195, 169>>
    /\ probe.out.enc.ok
    /\ probe.out.dec.val = <<195, 169>>

\* C26 as stated: whichever way two separately built TokenEncryptor
\* instances got their keys, what one encrypts the other fails to decrypt.
C26_OtherInstanceCannotDecrypt ==
    probe.fn = "twoInstances" /\ probe.done /\ probe.out.enc.ok =>
        ~probe.out.dec.ok

\* Standard base64 as a property of the text: after the line breaks are
\* taken out, a multiple of four characters of the alphabet, the last one or
\* the last two of which may be padding.
ValidStdBase64(text) ==
    LET t == SelectSeq(text, LAMBDA c : c \notin LineBreaks)
        n == Len(t)
    IN /\ n % 4 = 0
       /\ \A i \in 1..n :
             \/ t[i] \in B64Alphabet
             \/ t[i] = Pad /\ i = n
             \/ t[i] = Pad /\ i = n - 1 /\ t[n] = Pad
\* The number of bytes a valid text stands for.
DecodedLen(text) ==
    LET t == SelectSeq(text, LAMBDA c : c \notin LineBreaks)
    IN (Len(t) \div 4) * 3 - Len(SelectSeq(t, LAMBDA c : c = Pad))

\* C27: Decrypt returns an error and the empty string, never a plaintext,
\* for a string that is no valid base64 ("failed to decode base64"), for a
\* decodable string shorter than a nonce, the empty string included
\* ("ciphertext too short"), and for a decodable string whose nonce and
\* ciphertext do not authenticate under the key of the instance ("failed to
\* decrypt"); it returns without error for what the instance encrypted.
C27_DecryptRejects ==
    probe.fn = "Decrypt" /\ probe.done =>
        /\ probe.is = "notBase64" =>
              /\ ~ValidStdBase64(probe.str)
              /\ probe.out = [ok |-> FALSE, val |-> <<>>,
                              why |-> "failed to decode base64"]
        /\ probe.is = "short" =>
              /\ ValidStdBase64(probe.str)
              /\ DecodedLen(probe.str) < NonceSize
              /\ probe.out = [ok |-> FALSE, val |-> <<>>,
                              why |-> "ciphertext too short"]
        /\ \/ probe.is = "notAuthentic"
           \/ probe.is = "own" /\ probe.str \notin
                  {e.str : e \in {x \in EncryptedStrings(probe.key) :
                                     x.is = "own"}} =>
              /\ ValidStdBase64(probe.str)
              /\ DecodedLen(probe.str) >= NonceSize
              /\ probe.out = [ok |-> FALSE, val |-> <<>>,
                              why |-> "failed to decrypt"]
        /\ probe.out.ok =>
              /\ probe.is = "own"
              /\ probe.out.val \in Plaintexts

\* Decrypt was given a message of its own key with a byte of the ciphertext
\* changed, and the empty string.
C27_Witness ==
    /\ probe.fn = "Decrypt" /\ probe.done
    /\ \/ probe.str = EncodeToString(Tamper(SealedBy(probe.key), NonceSize + 1))
       \/ probe.str = <<>>
    /\ ~probe.out.ok

\* C28: IsEncrypted(text) is true exactly when text is valid standard
\* base64 (line breaks in it are passed over, as the decoder does), so it is
\* true of the empty string, of plain text that happens to decode and of
\* every output of Encrypt, and false of everything else.
C28_IsEncryptedIffBase64 ==
    probe.fn = "IsEncrypted" /\ probe.done =>
        /\ probe.out = ValidStdBase64(probe.str)
        /\ probe.str = <<>> => probe.out
        /\ probe.is = "own" => probe.out
        /\ probe.is = "notBase64" => ~probe.out

\* IsEncrypted answered true for sixteen letters of plain text.
C28_Witness ==
    /\ probe.fn = "IsEncrypted" /\ probe.done
    /\ probe.str = [i \in 1..16 |-> 97]
    /\ probe.out

\* ------------------------------------- properties: PostMessage and 401
\* C29: whenever the failure that ends the first createRecord execution is a
\* 401, after earlier attempts of that execution failed retryably too,
\* DoRequest returns it as the bare status error, the 401 check of
\* PostMessage recognises it, and PostMessage makes its RefreshToken call
\* before anything else.
C29_Final401TakesRefreshPath ==
    \A p \in Procs :
        /\ (pc[p] = "pm_resp" /\ Is401(dr[p].last)) =>
               /\ dr[p].err = HTTPError(401)
               /\ IsUnauthorized(dr[p].err)
        /\ (Len(pm[p].log) >= 1 /\ Is401(pm[p].log[1].err)) =>
               /\ pm[p].log[1].url = CreateRecord
               /\ AsHTTPError(pm[p].log[1].err)
               /\ pm[p].refreshes = 1
               /\ Len(pm[p].log) >= 2 => pm[p].log[2].url = RefreshSession

\* The first execution was answered 500 and then 401, and PostMessage has
\* made its RefreshToken call.
C29_Witness ==
    \E p \in Procs :
        /\ Len(pm[p].log) >= 2
        /\ pm[p].log[1] = [url |-> CreateRecord, sends |-> MaxRetries + 1,
                           err |-> HTTPError(401)]
        /\ pm[p].log[2].url = RefreshSession
        /\ pm[p].refreshes = 1

\* The DoRequest calls to url that the log of PostMessage holds.
CallsTo(p, url) == Len(SelectSeq(pm[p].log, LAMBDA e : e.url = url))

\* C30: on the 401 path a RefreshToken call that fails ends PostMessage with
\* that failure and no second createRecord execution; a createRecord
\* execution after the refresh that fails, with 401 too, ends PostMessage
\* with that failure and no second refresh; a PostMessage call never makes
\* more than one RefreshToken call nor more than two createRecord
\* executions.
C30_AtMostOneRefreshTwoExecutions ==
    \A p \in Procs :
        /\ pm[p].refreshes <= 1 /\ pm[p].execs <= 2
        /\ CallsTo(p, RefreshSession) <= pm[p].refreshes
        /\ CallsTo(p, CreateRecord) <= pm[p].execs
        /\ pm[p].execs = 2 => pm[p].refreshes = 1
        /\ pm[p].refreshErr # NoError =>
              /\ ~pm[p].active
              /\ pm[p].execs = 1 /\ pm[p].refreshes = 1
              /\ pm[p].err = Wrap("failed to refresh token", pm[p].refreshErr)
        /\ (/\ ~pm[p].active
            /\ CallsTo(p, CreateRecord) = 2
            /\ pm[p].log[Len(pm[p].log)].err # NoError) =>
              /\ pm[p].log[Len(pm[p].log)].url = CreateRecord
              /\ pm[p].refreshes = 1 /\ pm[p].execs = 2
              /\ pm[p].err = Wrap("failed to post message after token refresh",
                                  pm[p].log[Len(pm[p].log)].err)

\* A returned PostMessage whose execution after the refresh ended with 401
\* again.
C30_Witness ==
    \E p \in Procs :
        /\ ~pm[p].active
        /\ Len(pm[p].log) = 3
        /\ pm[p].log[1].err = HTTPError(401)
        /\ pm[p].log[2].url = RefreshSession
        /\ pm[p].log[3].err = HTTPError(401)
        /\ pm[p].refreshes = 1 /\ pm[p].execs = 2
        /\ pm[p].err # NoError

\* C31: the createRecord execution that follows a 401 is handed as bearer
\* what the GetToken(access) call made after RefreshToken returned has
\* returned; with no other refresh running beside it that is the access
\* credential of the pair the refresh received, and the record it sends is
\* serialized to the same bytes as in the first execution.
C31_RetryCarriesRefreshedCredential ==
    \A p \in Procs :
        /\ Len(pm[p].bearers) = 2 =>
              /\ pm[p].refreshes = 1 /\ pm[p].refreshErr = NoError
              /\ pm[p].fresh.parsed
              /\ pm[p].bearers[2] = pm[p].fresh.accessJwt
        /\ (pm[p].execs = 2 /\ dr[p].url = CreateRecord) =>
              /\ dr[p].bearer = pm[p].bearers[2]
              /\ dr[p].req.bodyBytes = pm[p].bodies[1]
        /\ Len(pm[p].bodies) = 2 =>
              /\ pm[p].bodies[1] # <<>>
              /\ pm[p].bodies[2] = pm[p].bodies[1]

\* The first execution presented the seed and was answered 401, the refresh
\* received the first pair issued, and the second execution presented the
\* access credential of that pair.
C31_Witness ==
    \E p \in Procs :
        /\ ~pm[p].active
        /\ pm[p].bearers = <<Tok(AccessToken, 0), Tok(AccessToken, 1)>>
        /\ pm[p].fresh.accessJwt = Tok(AccessToken, 1)
        /\ Len(pm[p].bodies) = 2

\* ------------------------------- properties: the credential presented
\* The store held, when p's RefreshToken call started, the refresh
\* credential of a response and no longer the seed: a refresh had returned
\* successfully.
StartedAfterRefresh(p) ==
    /\ rt[p].atStart.stored.form = "ct"
    /\ rt[p].atStart.stored.key = Key
    /\ rt[p].atStart.stored.txt # Tok(RefreshToken, 0)

\* C32: every request of a RefreshToken call carries as bearer what the
\* GetToken(refresh) call at its start returned; with no other refresh
\* running beside it that is what GetToken(refresh) returns in the state
\* where the call starts, and a call that starts after a successful
\* refresh returned presents the refresh credential of that refresh's
\* response, which the store then holds, and not the seed it replaced.
C32_PresentsCurrentRefreshCredential ==
    /\ [](\A p \in Procs :
            (rt[p].presented # <<>> /\ rt[p].active
                 /\ dr[p].url = RefreshSession) =>
                dr[p].bearer = rt[p].presented[1])
    /\ [][\A p \in Procs :
            (rt[p].presented = <<>> /\ rt'[p].presented # <<>>) =>
                /\ rt[p].solo =>
                       /\ rt[p].atStart.ok
                       /\ rt'[p].presented[1] = rt[p].atStart.val
                /\ (rt[p].solo /\ StartedAfterRefresh(p)) =>
                       /\ rt'[p].presented[1] = rt[p].atStart.stored.txt
                       /\ rt'[p].presented[1] # Tok(RefreshToken, 0)]_vars

\* ------------------------------------ properties: the end of the cycle
\* C33: once Shutdown has been called the background goroutine takes the
\* Done case, stops its ticker and exits, whether it was waiting, had a
\* tick pending or was inside a refresh (unless a second Shutdown call has
\* ended the whole process by closing the closed channel); it leaves the
\* loop from its select only, with Done closed, so without a Shutdown call
\* it never exits, whatever its refreshes returned.
C33_ShutdownEndsCycle ==
    /\ doneClosed ~> (pc["bg"] = "bg_exit" \/ panicked)
    /\ [](pc["bg"] = "bg_exit" => doneClosed)
    /\ [][(pc["bg"] # "bg_exit" /\ pc'["bg"] = "bg_exit") =>
             (pc["bg"] = "bg_wait" /\ doneClosed /\ ~rt["bg"].active)]_vars
    /\ [][pc["bg"] = "bg_exit" => pc'["bg"] = "bg_exit"]_vars

\* The cycle has run a refresh that received a pair and has exited after
\* the one Shutdown call.
C33_Witness ==
    /\ pc["bg"] = "bg_exit"
    /\ ~panicked
    /\ ops["bg"] >= 1
    /\ issued = 2

\* ------------------------------------------ properties: the backoff wait
\* The requests and waits of the DoRequest call of p alternate: a wait comes
\* after a request only, and the call is about to send its next request
\* exactly when it has sat through as many waits as it has sent requests.
Alternating(p) ==
    /\ pc[p] = "dr_send" => Len(dr[p].waited) = dr[p].sends
    /\ pc[p] # "dr_send" =>
          Len(dr[p].waited) = IF dr[p].sends = 0 THEN 0 ELSE dr[p].sends - 1

\* C34 as stated: the first request of a DoRequest call is sent without a
\* wait, every later attempt k only after a wait of calculateBackoff(k) has
\* gone by entirely, and no two attempts are sent back to back.
C34_NoAttemptsBackToBack ==
    \A p \in Procs :
        /\ Alternating(p)
        /\ \A k \in 1..Len(dr[p].waited) :
              /\ dr[p].waited[k] = calculateBackoff(cfgRetryBackoff, k)
              /\ dr[p].waited[k] # {}

\* C34 amended: the first request is sent without a wait and every later
\* attempt k only after the timer of calculateBackoff(k) has fired; the
\* time gone by is calculateBackoff(k) when that is positive, and none at
\* all when it is zero or negative, in which case attempt k follows attempt
\* k-1 back to back.
C34_WaitOfBackoffBetweenAttempts ==
    \A p \in Procs :
        /\ Alternating(p)
        /\ \A k \in 1..Len(dr[p].waited) :
              LET b == calculateBackoff(cfgRetryBackoff, k)
              IN IF ~Negative(b) /\ b # {}
                 THEN dr[p].waited[k] = b
                 ELSE dr[p].waited[k] = {}

\* A call has failed its first attempt, waited the 100ms of its
\* configuration and sent its second request.
C34_Witness ==
    \E p \in Procs :
        /\ cfgRetryBackoff = Mul64(Bits(100), Millisecond)
        /\ dr[p].sends = 2
        /\ dr[p].waited = <<Mul64(Bits(100), Millisecond)>>

\* ------------------------------ properties: encryptTokensIfNeeded
\* C35: encryptTokensIfNeeded decides from the access seed alone.  When
\* IsEncrypted(access seed) is true it leaves store and cache as they are,
\* whatever the refresh seed is; when it is false it either stores the
\* encryption of both seeds and caches both seeds as they were given, or,
\* when an encryption failed, changes neither store nor cache.
C35_DecidesFromAccessSeed ==
    [][pc["main"] = "ntm_encrypt" =>
         IF IsEncrypted(cfgAccessJWT)
         THEN UNCHANGED tokenVars
         ELSE \/ /\ randFails
                 /\ UNCHANGED tokenVars
              \/ /\ \E n \in Nonces :
                       /\ cfgAccessJWT' = CipherText(Key, n, cfgAccessJWT.txt)
                       /\ cfgRefreshJWT' = CipherText(Key, n, cfgRefreshJWT.txt)
                 /\ Decrypt(cfgAccessJWT') =
                        [ok |-> TRUE, val |-> cfgAccessJWT.txt, why |-> ""]
                 /\ Decrypt(cfgRefreshJWT') =
                        [ok |-> TRUE, val |-> cfgRefreshJWT.txt, why |-> ""]
                 /\ cachedAccessToken' = cfgAccessJWT.txt
                 /\ cachedRefreshToken' = cfgRefreshJWT.txt]_vars

\* The seeds were plain text: the store holds their encryption and the
\* cache the seeds, and the eager refresh has just been started.
C35_Witness ==
    /\ pc["main"] = "gt_rlock" /\ rt["main"].ret = "ntm_refreshed"
    /\ cfgAccessJWT = CipherText(Key, 0, Tok(AccessToken, 0))
    /\ cfgRefreshJWT = CipherText(Key, 0, Tok(RefreshToken, 0))
    /\ cachedAccessToken = Tok(AccessToken, 0)
    /\ cachedRefreshToken = Tok(RefreshToken, 0)
    /\ rt["main"].atStart.val = Tok(RefreshToken, 0)

\* ------------------------------------------------ properties: the locks
\* Goroutine p holds mutex m, for reading or for writing.
Holds(p, m) == m.w = p \/ p \in m.r

InGetToken(p) ==
    pc[p] \in {"gt_rlock", "gt_check", "gt_srlock", "gt_sread", "gt_lock",
               "gt_fill"}

\* C36: no goroutine ever holds the cache lock and the store lock at the
\* same time, and a goroutine that waits for one of them holds neither; so
\* every GetToken call returns and every RefreshToken call returns,
\* whatever GetToken calls, RefreshToken calls, the background cycle and
\* Shutdown run beside it.
C36_LocksNeverNested ==
    /\ [](\A p \in Procs :
            /\ ~(Holds(p, cachedTokensMutex) /\ Holds(p, encryptedTokensMutex))
            /\ pc[p] \in {"gt_rlock", "gt_srlock", "gt_lock", "rt_clock", "rt_enc"} =>
                  ~Holds(p, cachedTokensMutex) /\ ~Holds(p, encryptedTokensMutex))
    /\ \A p \in Procs :
          /\ InGetToken(p) ~> (pc[p] = gt[p].ret \/ panicked)
          /\ rt[p].active ~> (~rt[p].active \/ panicked)

\* "r1" waits for the write lock of the cache on its miss path while the
\* background refresh holds it, after Shutdown was called.
C36_Witness ==
    /\ pc["r1"] = "gt_lock"
    /\ cachedTokensMutex.w = "bg"
    /\ rt["bg"].active
    /\ doneClosed

\* ------------------------------------- properties: refresh error paths
\* C37: a RefreshToken call that has returned an error, whatever the cause,
\* has replaced neither the cached pair nor the stored pair.
C37_ErrorLeavesCacheAndStore ==
    \A p \in Procs :
        (~rt[p].active /\ rt[p].err # NoError) =>
            ~rt[p].wroteCache /\ ~rt[p].wroteStore

\* C38: a RefreshToken call that has returned nil received a response with
\* a non-empty accessJwt and a non-empty refreshJwt, and a GetToken call
\* that has returned with a nil error has returned a non-empty credential.
C38_SuccessNeedsBothCredentials ==
    \A p \in Procs :
        /\ (~rt[p].active /\ rt[p].wroteStore /\ rt[p].err = NoError) =>
               /\ rt[p].resp.accessJwt # EmptyString
               /\ rt[p].resp.refreshJwt # EmptyString
        /\ (pc[p] = "idle" /\ (gt[p].hit \/ gt[p].wlock) /\ gt[p].err = NoError) =>
               gt[p].val # EmptyString

\* ------------------------------------ properties: overlapping refreshes
\* Goroutine p is inside a RefreshToken call that has read the refresh
\* credential and has not returned.
InFlight(p) == rt[p].active /\ rt[p].presented # <<>>

\* C39: at most one RefreshToken call at a time is between reading the
\* refresh credential and storing the new pair, so no two calls in flight
\* present the same refresh credential.
C39_RefreshesNeverOverlap ==
    \A p, q \in Procs :
        (InFlight(p) /\ InFlight(q)) => p = q

\* ------------------------------------------- properties: the signal
\* main has taken the signal case of its loop.
SignalReceived == pc["main"] \in {"main_send", "main_returned"}

\* C40: once main has received SIGINT or SIGTERM its send on the
\* repository's Done channel completes and main returns, and the
\* background refresh cycle exits.
C40_SignalEndsMainAndCycle ==
    SignalReceived ~> (pc["main"] = "main_returned" /\ pc["bg"] = "bg_exit")

====
